---- MODULE Spec2Model ----
(***************************************************************************)
(* Prestressed beam design calculations (backend/calculations.py) and the   *)
(* slab design API that stores projects (backend/server.py).               *)
(*                                                                         *)
(* The calculation functions are pure: each specification below draws the  *)
(* arguments of one call in Init and applies the function in its action.   *)
(*                                                                         *)
(* Numbers.  A Python float is modelled by an exact decimal-scaled         *)
(* rational [n, d, e] = (n / d) * 10^e, kept normalised (one form for      *)
(* each number, so that = is equality).  Two values stand outside the      *)
(* rationals: INF is float('inf') and RAISED is the result of an           *)
(* expression whose evaluation raised (ZeroDivisionError, TypeError); an   *)
(* operation on RAISED is RAISED, and a function whose body evaluated a    *)
(* RAISED value returns an error record instead of its result.             *)
(***************************************************************************)
EXTENDS Integers, Sequences, FiniteSets, TLC

VARIABLES pc, fn, args, ret, db, host

vars == <<pc, fn, args, ret, db, host>>

\* the calculation functions run without the server: no collection and no
\* clock or uuid generator is read or written by them
Offline ==
    /\ db = [users |-> {}, projects |-> {}]
    /\ host = [clock |-> 0, uuid |-> 0]

(***************************************************************************)
(* Arithmetic                                                              *)
(***************************************************************************)
Abs(i) == IF i < 0 THEN -i ELSE i

RECURSIVE Gcd(_, _)
Gcd(a, b) == IF b = 0 THEN a ELSE Gcd(b, a % b)

RECURSIVE Pow10(_)
Pow10(k) == IF k <= 0 THEN 1 ELSE 10 * Pow10(k - 1)

INF == [n |-> 1, d |-> 0, e |-> 0]

RAISED == [n |-> 0, d |-> 0, e |-> 0]

IsInf(x) == x.d = 0 /\ x.n # 0

IsRaised(x) == x.d = 0 /\ x.n = 0

IsNum(x) == x.d > 0

\* the exponent of the prime p in the non-zero integer i, and 2^k
RECURSIVE Val(_, _)
Val(i, p) == IF i % p = 0 THEN 1 + Val(i \div p, p) ELSE 0

RECURSIVE PowI(_, _)
PowI(b, k) == IF k <= 0 THEN 1 ELSE b * PowI(b, k - 1)

\* n1 / d1 in lowest terms, the exponents of 2 and 5 in n1 (a, b) and in d1
\* (c, f): the powers of 5 go to the decimal exponent with as many powers of 2
NormPow(n1, d1, e, a, b, c, f) ==
    [n |-> (n1 \div (PowI(2, a) * PowI(5, b))) * PowI(2, (a - c) - (b - f)),
     d |-> (d1 \div (PowI(2, c) * PowI(5, f))) * PowI(2, (b - f) - (a - c)),
     e |-> e + (b - f)]

NormLowest(n1, d1, e) ==
    NormPow(n1, d1, e, Val(n1, 2), Val(n1, 5), Val(d1, 2), Val(d1, 5))

NormGcd(n, d, e, g) == NormLowest(n \div g, d \div g, e)

\* the normalised number (n / d) * 10^e, d > 0: n / d in lowest terms, neither
\* divisible by 5, at most one of them even (each number has one such form)
Norm(n, d, e) ==
    IF n = 0 THEN [n |-> 0, d |-> 1, e |-> 0]
    ELSE NormGcd(n, d, e, Gcd(Abs(n), d))

Q(n, d) == Norm(n, d, 0)

I(n) == Norm(n, 1, 0)

\* a decimal literal: m * 10^e  (Dec(35, -3) is 0.035)
Dec(m, e) == Norm(m, 1, e)

QNeg(x) == IF IsNum(x) THEN [x EXCEPT !.n = -x.n] ELSE x

QAbs(x) == IF IsNum(x) THEN [x EXCEPT !.n = Abs(x.n)] ELSE x

QMulGcd(x, y, g1, g2) ==
    Norm((x.n \div g1) * (y.n \div g2), (x.d \div g2) * (y.d \div g1), x.e + y.e)

QMul(x, y) ==
    IF IsRaised(x) \/ IsRaised(y) THEN RAISED
    ELSE IF IsInf(x) \/ IsInf(y) THEN INF
    ELSE QMulGcd(x, y, Gcd(Abs(x.n), y.d), Gcd(Abs(y.n), x.d))

\* Python raises ZeroDivisionError on a float division by zero
QDiv(x, y) ==
    IF IsRaised(x) \/ IsRaised(y) THEN RAISED
    ELSE IF IsInf(y) THEN I(0)
    ELSE IF y.n = 0 THEN RAISED
    ELSE IF IsInf(x) THEN INF
    ELSE QMul(x, [n |-> IF y.n < 0 THEN -y.d ELSE y.d, d |-> Abs(y.n), e |-> -y.e])

QAddGcd(x, y, m, g) ==
    Norm(x.n * Pow10(x.e - m) * (y.d \div g) + y.n * Pow10(y.e - m) * (x.d \div g),
         (x.d \div g) * y.d, m)

QAdd(x, y) ==
    IF IsRaised(x) \/ IsRaised(y) THEN RAISED
    ELSE IF IsInf(x) \/ IsInf(y) THEN INF
    ELSE IF x.n = 0 THEN y
    ELSE IF y.n = 0 THEN x
    ELSE QAddGcd(x, y, IF x.e < y.e THEN x.e ELSE y.e, Gcd(x.d, y.d))

QSub(x, y) == QAdd(x, QNeg(y))

Sign(x) == IF x.n > 0 THEN 1 ELSE IF x.n < 0 THEN -1 ELSE 0

\* the number of decimal digits of i > 0
RECURSIVE Digits(_)
Digits(i) == IF i < 10 THEN 1 ELSE 1 + Digits(i \div 10)

\* the sign of p/q - r/s for positive integers, by continued fractions
RECURSIVE CmpFrac(_, _, _, _)
CmpFrac(p, q, r, s) ==
    IF p \div q # r \div s THEN (IF p \div q < r \div s THEN -1 ELSE 1)
    ELSE IF p % q = 0 /\ r % s = 0 THEN 0
    ELSE IF p % q = 0 THEN -1
    ELSE IF r % s = 0 THEN 1
    ELSE CmpFrac(s, r % s, q, p % q)

\* the sign of p * 10^k / q - r / s, scaling the numerator as far as nine
\* digits allow and the other denominator by the rest
CmpScaled(p, q, r, s, k, a) == CmpFrac(p * Pow10(a), q, r, s * Pow10(k - a))

CmpAligned(p, q, r, s, k, dp) ==
    CmpScaled(p, q, r, s, k,
              IF dp + k <= 9 THEN k ELSE IF dp >= 9 THEN 0 ELSE 9 - dp)

\* the sign of x - y for positive numbers of magnitudes Lx, Ly
CmpMagnitude(x, y, Lx, Ly) ==
    IF Lx >= Ly + 2 THEN 1
    ELSE IF Ly >= Lx + 2 THEN -1
    ELSE IF x.e >= y.e THEN CmpAligned(x.n, x.d, y.n, y.d, x.e - y.e, Digits(x.n))
    ELSE -CmpAligned(y.n, y.d, x.n, x.d, y.e - x.e, Digits(y.n))

\* the sign of x - y for positive numbers x, y
CmpPos(x, y) ==
    CmpMagnitude(x, y, Digits(x.n) - Digits(x.d) + x.e,
                 Digits(y.n) - Digits(y.d) + y.e)

CmpSigned(x, y, sx, sy) ==
    IF sx # sy THEN sx < sy
    ELSE IF sx = 0 THEN FALSE
    ELSE CmpPos(IF sx > 0 THEN x ELSE QNeg(y), IF sx > 0 THEN y ELSE QNeg(x)) < 0

\* x < y, x <= y on floats (never evaluated on RAISED)
QLt(x, y) ==
    IF IsInf(x) THEN FALSE
    ELSE IF IsInf(y) THEN TRUE
    ELSE CmpSigned(x, y, Sign(x), Sign(y))

QLe(x, y) == ~QLt(y, x)

QEq(x, y) == x = y

QMin(x, y) == IF QLt(y, x) THEN y ELSE x

QMax(x, y) == IF QLt(x, y) THEN y ELSE x

\* <<(10 * r) \div d, (10 * r) % d>> for 0 <= r < d, by ten additions of r
RECURSIVE TenTimes(_, _, _, _, _)
TenTimes(r, d, acc, q, k) ==
    IF k = 0 THEN <<q, acc>>
    ELSE IF acc >= d - r THEN TenTimes(r, d, acc - (d - r), q + 1, k - 1)
    ELSE TenTimes(r, d, acc + r, q, k - 1)

\* <<floor((q + r / d) * 10^m), remainder>> by long division
RECURSIVE LongDivR(_, _, _, _)
LongDivR(q, r, d, m) ==
    IF m = 0 THEN <<q, r>>
    ELSE LET step == TenTimes(r, d, 0, 0, 10)
         IN  LongDivR(10 * q + step[1], step[2], d, m - 1)

HalfEven(q, up, tie) ==
    IF up THEN q + 1 ELSE IF tie /\ q % 2 = 1 THEN q + 1 ELSE q

RoundUp(qr, d) == HalfEven(qr[1], qr[2] > d - qr[2], qr[2] = d - qr[2])

RoundDown(q0, sticky, p) ==
    HalfEven(q0 \div p, q0 % p > p \div 2 \/ (q0 % p = p \div 2 /\ sticky),
             q0 % p = p \div 2 /\ ~sticky)

\* the integer nearest to (n / d) * 10^m, n >= 0, ties to even
RoundPos(n, d, m) ==
    IF m >= 0 THEN RoundUp(LongDivR(n \div d, n % d, d, m), d)
    ELSE IF -m >= 10 THEN 0
    ELSE RoundDown(n \div d, n % d # 0, Pow10(-m))

\* round(x, k): the nearest multiple of 10^-k; round(inf, k) is inf
Round(x, k) ==
    IF ~IsNum(x) THEN x
    ELSE Norm(Sign(x) * RoundPos(Abs(x.n), x.d, x.e + k), 1, -k)

\* None, the value of an optional field that holds no number
None == [n |-> 0, d |-> -1, e |-> 0]

\* Python's `v or default`: None and 0 are falsy
OrElse(v, default) == IF v = None \/ v = I(0) THEN default ELSE v

Two == I(2)

Sq(x) == QMul(x, x)

Cube(x) == QMul(x, QMul(x, x))

\* a function's body evaluated an expression that raised
AnyRaised(S) == \E x \in S : IsRaised(x)

Failed(r) == r.error # "none"

(***************************************************************************)
(* calculate_section_properties                                            *)
(***************************************************************************)
\* y_top = h - y_bar (the mutant slips the sign)
FiberTop_signslip(h, y_bar) == QSub(y_bar, h)

FiberTop(h, y_bar) == QSub(h, y_bar)

SectionRecord(area, II, y_top, y_bot, perimeter) ==
    LET Z_top == QDiv(II, y_top)
        Z_bot == QDiv(II, y_bot)
    IN  IF AnyRaised({area, II, y_top, y_bot, Z_top, Z_bot})
        THEN [error |-> "ZeroDivisionError"]
        ELSE [error |-> "none", area |-> area, I |-> II, y_top |-> y_top,
              y_bot |-> y_bot, Z_top |-> Z_top, Z_bot |-> Z_bot,
              perimeter |-> perimeter]

\* the second moment taken about the vertical axis, b^3 * h / 12
RectangularProperties_weakaxis(s) ==
    LET b == s.width
        h == s.height
    IN  SectionRecord(QMul(b, h), QDiv(QMul(Cube(b), h), I(12)),
                      QDiv(h, Two), QDiv(h, Two), QMul(Two, QAdd(b, h)))

RectangularProperties(s) ==
    LET b == s.width
        h == s.height
    IN  SectionRecord(QMul(b, h), QDiv(QMul(b, Cube(h)), I(12)),
                      QDiv(h, Two), QDiv(h, Two), QMul(Two, QAdd(b, h)))

TBeamProperties(s) ==
    LET bw == s.bw
        bf == s.bf
        hf == s.hf
        h  == s.h
        hw == QSub(h, hf)
        area == QAdd(QMul(bf, hf), QMul(bw, hw))
        yf == QSub(h, QDiv(hf, Two))
        yw == QDiv(hw, Two)
        y_bar == QDiv(QAdd(QMul(QMul(bf, hf), yf), QMul(QMul(bw, hw), yw)), area)
        I_flange == QAdd(QDiv(QMul(bf, Cube(hf)), I(12)),
                         QMul(QMul(bf, hf), Sq(QSub(yf, y_bar))))
        I_web == QAdd(QDiv(QMul(bw, Cube(hw)), I(12)),
                      QMul(QMul(bw, hw), Sq(QSub(yw, y_bar))))
    IN  SectionRecord(area, QAdd(I_flange, I_web), FiberTop(h, y_bar), y_bar,
                      QAdd(QAdd(QMul(Two, h), QMul(Two, bf)),
                           QMul(Two, QSub(bf, bw))))

IBeamProperties(s) ==
    LET bw == s.bw
        h  == s.h
        hw == QSub(QSub(h, s.hf_top), s.hf_bot)
        A_top == QMul(s.bf_top, s.hf_top)
        A_web == QMul(bw, hw)
        A_bot == QMul(s.bf_bot, s.hf_bot)
        area == QAdd(QAdd(A_top, A_web), A_bot)
        yb == QDiv(s.hf_bot, Two)
        yw == QAdd(s.hf_bot, QDiv(hw, Two))
        yt == QSub(h, QDiv(s.hf_top, Two))
        y_bar == QDiv(QAdd(QAdd(QMul(A_bot, yb), QMul(A_web, yw)),
                           QMul(A_top, yt)), area)
        I_bot == QAdd(QDiv(QMul(s.bf_bot, Cube(s.hf_bot)), I(12)),
                      QMul(A_bot, Sq(QSub(yb, y_bar))))
        I_web == QAdd(QDiv(QMul(bw, Cube(hw)), I(12)),
                      QMul(A_web, Sq(QSub(yw, y_bar))))
        I_top == QAdd(QDiv(QMul(s.bf_top, Cube(s.hf_top)), I(12)),
                      QMul(A_top, Sq(QSub(yt, y_bar))))
    IN  SectionRecord(area, QAdd(QAdd(I_bot, I_web), I_top),
                      FiberTop(h, y_bar), y_bar,
                      QAdd(QAdd(QAdd(QAdd(QMul(Two, h), s.bf_top), s.bf_bot),
                                QMul(Two, QSub(s.bf_top, bw))),
                           QMul(Two, QSub(s.bf_bot, bw))))

BoxGirderProperties(s) ==
    LET h == s.h
        h_int == QSub(QSub(h, s.t_top), s.t_bot)
        A_top == QMul(s.b_top, s.t_top)
        A_bot == QMul(s.b_bot, s.t_bot)
        A_webs == QMul(QMul(Two, s.t_web), h_int)
        area == QAdd(QAdd(A_top, A_bot), A_webs)
        yb == QDiv(s.t_bot, Two)
        yw == QAdd(s.t_bot, QDiv(h_int, Two))
        yt == QSub(h, QDiv(s.t_top, Two))
        y_bar == QDiv(QAdd(QAdd(QMul(A_bot, yb), QMul(A_webs, yw)),
                           QMul(A_top, yt)), area)
        I_bot == QAdd(QDiv(QMul(s.b_bot, Cube(s.t_bot)), I(12)),
                      QMul(A_bot, Sq(QSub(yb, y_bar))))
        I_webs == QMul(Two, QAdd(QDiv(QMul(s.t_web, Cube(h_int)), I(12)),
                                 QMul(QDiv(A_webs, Two), Sq(QSub(yw, y_bar)))))
        I_top == QAdd(QDiv(QMul(s.b_top, Cube(s.t_top)), I(12)),
                      QMul(A_top, Sq(QSub(yt, y_bar))))
    IN  SectionRecord(area, QAdd(QAdd(I_bot, I_webs), I_top),
                      FiberTop(h, y_bar), y_bar,
                      QAdd(QMul(Two, QAdd(s.b_top, s.b_bot)), QMul(I(4), h_int)))

\* (the mutant takes a section of unknown type for a 120 x 150 rectangle)
calculate_section_properties_lenient(section) ==
    IF section.section_type = "rectangular" THEN RectangularProperties(section.rectangular)
    ELSE IF section.section_type = "t_beam" THEN TBeamProperties(section.t_beam)
    ELSE IF section.section_type = "i_beam" THEN IBeamProperties(section.i_beam)
    ELSE IF section.section_type = "box_girder" THEN BoxGirderProperties(section.box_girder)
    ELSE RectangularProperties([width |-> I(120), height |-> I(150)])

calculate_section_properties(section) ==
    IF section.section_type = "rectangular" THEN RectangularProperties(section.rectangular)
    ELSE IF section.section_type = "t_beam" THEN TBeamProperties(section.t_beam)
    ELSE IF section.section_type = "i_beam" THEN IBeamProperties(section.i_beam)
    ELSE IF section.section_type = "box_girder" THEN BoxGirderProperties(section.box_girder)
    ELSE [error |-> "ValueError"]

get_section_height(section) ==
    IF section.section_type = "rectangular" THEN section.rectangular.height
    ELSE IF section.section_type = "t_beam" THEN section.t_beam.h
    ELSE IF section.section_type = "i_beam" THEN section.i_beam.h
    ELSE IF section.section_type = "box_girder" THEN section.box_girder.h
    ELSE I(0)

get_web_width(section) ==
    IF section.section_type = "rectangular" THEN section.rectangular.width
    ELSE IF section.section_type = "t_beam" THEN section.t_beam.bw
    ELSE IF section.section_type = "i_beam" THEN section.i_beam.bw
    ELSE IF section.section_type = "box_girder" THEN QMul(Two, section.box_girder.t_web)
    ELSE I(0)

\* the section inputs: BeamSection with the variant of its tag populated
Rect(b, h) == [section_type |-> "rectangular",
               rectangular |-> [width |-> I(b), height |-> I(h)]]

TBeam(bw, bf, hf, h) ==
    [section_type |-> "t_beam",
     t_beam |-> [bw |-> I(bw), bf |-> I(bf), hf |-> I(hf), h |-> I(h)]]

IBeam(bw, bf_top, bf_bot, hf_top, hf_bot, h) ==
    [section_type |-> "i_beam",
     i_beam |-> [bw |-> I(bw), bf_top |-> I(bf_top), bf_bot |-> I(bf_bot),
                 hf_top |-> I(hf_top), hf_bot |-> I(hf_bot), h |-> I(h)]]

BoxGirder(b_top, b_bot, b_int, t_top, t_bot, t_web, h) ==
    [section_type |-> "box_girder",
     box_girder |-> [b_top |-> I(b_top), b_bot |-> I(b_bot), b_int |-> I(b_int),
                     t_top |-> I(t_top), t_bot |-> I(t_bot), t_web |-> I(t_web),
                     h |-> I(h)]]

(***************************************************************************)
(* calculate_magnel_diagram                                                *)
(***************************************************************************)
num_points == 50

cover == 50

\* abs(denom) > 1e-6: the line's denominator is usable
DenomUsable(denom) == QLt(Dec(1, -6), QAbs(denom))

\* inv_P > 0: the point is retained (the mutant retains every point)
MagnelKeep_all(inv_P) == TRUE

MagnelKeep(inv_P) == QLt(I(0), inv_P)

\* e_range[i], i = 0 .. num_points - 1
GridValue(e_min, e_max, i) ==
    QAdd(e_min, QDiv(QMul(I(i), QSub(e_max, e_min)), I(num_points - 1)))

\* one pass of the loop body for one line: the point appended, if any
MagnelCandidate(numer, denom, e) ==
    IF IsRaised(denom) \/ ~DenomUsable(denom)
    THEN [keep |-> FALSE, raised |-> IsRaised(denom)]
    ELSE LET inv_P == QDiv(numer, denom)
         IN  [keep |-> ~IsRaised(inv_P) /\ MagnelKeep(inv_P),
              raised |-> IsRaised(inv_P),
              point |-> [inverse_force |-> QMul(inv_P, Dec(1, 3)),
                         eccentricity |-> e]]

\* the points one line collects over e_range, in the order of the loop
MagnelLine(cands) ==
    LET kept == SelectSeq(cands, LAMBDA c : c.keep)
    IN  [i \in 1..Len(kept) |-> kept[i].point]

calculate_magnel_diagram(section_props, concrete, M_min, M_max, losses, h) ==
    LET fck == concrete.fck
        fctm == concrete.fctm
        fci == QMul(Dec(8, -1), fck)
        sigma_c_max_transfer == QMul(Dec(6, -1), fci)
        sigma_t_max_transfer == fctm
        sigma_c_max_service == QMul(Dec(6, -1), fck)
        sigma_t_max_service == I(0)
        eta == QSub(I(1), QDiv(losses.loss_ratio, I(100)))
        A == section_props.area
        Z_t == section_props.Z_top
        Z_b == section_props.Z_bot
        y_t == section_props.y_top
        y_b == section_props.y_bot
        M_min_Nmm == QMul(M_min, Dec(1, 6))
        M_max_Nmm == QMul(M_max, Dec(1, 6))
        e_max == QSub(y_b, I(cover))
        e_min == QNeg(QSub(y_t, I(cover)))
        e_range == [i \in 1..num_points |-> GridValue(e_min, e_max, i - 1)]
        invA == QDiv(I(1), A)
        top(e) == QSub(invA, QDiv(e, Z_t))
        bot(e) == QAdd(invA, QDiv(e, Z_b))
        denom1 == QAdd(sigma_c_max_transfer, QDiv(M_min_Nmm, Z_t))
        denom2 == QAdd(sigma_t_max_transfer, QDiv(M_min_Nmm, Z_b))
        denom3 == QDiv(QAdd(sigma_t_max_service, QDiv(M_max_Nmm, Z_t)), eta)
        denom4 == QDiv(QSub(sigma_c_max_service, QDiv(M_max_Nmm, Z_b)), eta)
        c1 == [i \in 1..num_points |-> MagnelCandidate(top(e_range[i]), denom1, e_range[i])]
        c2 == [i \in 1..num_points |-> MagnelCandidate(bot(e_range[i]), denom2, e_range[i])]
        c3 == [i \in 1..num_points |-> MagnelCandidate(top(e_range[i]), denom3, e_range[i])]
        c4 == [i \in 1..num_points |-> MagnelCandidate(bot(e_range[i]), denom4, e_range[i])]
        loopRaised == \E i \in 1..num_points :
                         c1[i].raised \/ c2[i].raised \/ c3[i].raised \/ c4[i].raised
        optimal_e == QMul(e_max, Dec(8, -1))
        optimal_inv_P ==
            IF QLt(I(0), denom2)
            THEN QMax(QDiv(bot(optimal_e), denom2), QDiv(top(optimal_e), denom3))
            ELSE Dec(1, -6)
        optimal_P == IF QLt(I(0), optimal_inv_P)
                     THEN QDiv(I(1), QMul(optimal_inv_P, Dec(1, -3)))
                     ELSE I(0)
    IN  IF loopRaised THEN [error |-> "ZeroDivisionError"]
        ELSE IF QLt(I(0), denom2)
                /\ AnyRaised({QDiv(bot(optimal_e), denom2), QDiv(top(optimal_e), denom3)})
        THEN [error |-> "ZeroDivisionError"]
        ELSE IF IsRaised(optimal_P) THEN [error |-> "ZeroDivisionError"]
        ELSE [error |-> "none",
              line1_top_transfer |-> MagnelLine(c1),
              line2_bot_transfer |-> MagnelLine(c2),
              line3_top_service |-> MagnelLine(c3),
              line4_bot_service |-> MagnelLine(c4),
              optimal_point |-> [inverse_force |-> QMul(optimal_inv_P, Dec(1, 3)),
                                 eccentricity |-> optimal_e],
              min_force |-> QMul(optimal_P, Dec(5, -1)),
              max_force |-> QMul(optimal_P, Two),
              min_eccentricity |-> e_min,
              max_eccentricity |-> e_max]

(***************************************************************************)
(* The math library, to two decimals: math.sqrt, x ** (1/3), math.pi.      *)
(* A float rounds each result to 53 bits; where the exact value of a       *)
(* product of quotients would leave the integers of the model, its factors *)
(* are rounded to four significant digits (Sig, FMul): V_Rd_c, V_Rd_max,   *)
(* wk, the friction and relaxation losses.                                 *)
(***************************************************************************)
\* the decimal magnitude of x # 0: x < 10^Magnitude(x)
Magnitude(x) == Digits(Abs(x.n)) - Digits(x.d) + x.e + 1

\* x to (at most) four significant digits
Sig(x) == IF ~IsNum(x) \/ x.n = 0 THEN x ELSE Round(x, 4 - Magnitude(x))

FMul(x, y) == QMul(Sig(x), Sig(y))

\* floor(x * 10^k) of a number x >= 0
ScaledFloor(x, k) ==
    IF x.e + k >= 0 THEN LongDivR(x.n \div x.d, x.n % x.d, x.d, x.e + k)[1]
    ELSE IF -(x.e + k) >= 10 THEN 0
    ELSE (x.n \div x.d) \div Pow10(-(x.e + k))

RECURSIVE IsqrtIter(_, _)
IsqrtIter(v, r) ==
    LET r2 == (r + v \div r) \div 2
    IN  IF r2 >= r THEN r ELSE IsqrtIter(v, r2)

Isqrt(v) == IF v = 0 THEN 0 ELSE IsqrtIter(v, v)

RECURSIVE IcbrtIter(_, _, _)
IcbrtIter(v, lo, hi) ==
    IF lo >= hi THEN lo
    ELSE LET mid == (lo + hi + 1) \div 2
         IN  IF mid * mid * mid <= v THEN IcbrtIter(v, mid, hi)
             ELSE IcbrtIter(v, lo, mid - 1)

\* math.sqrt(x); a negative argument raises ValueError
Sqrt(x) ==
    IF IsRaised(x) \/ x.n < 0 THEN RAISED
    ELSE IF IsInf(x) THEN INF
    ELSE Dec(Isqrt(ScaledFloor(x, 4)), -2)

\* x ** (1/3) for x >= 0
Cbrt(x) ==
    IF IsRaised(x) \/ x.n < 0 THEN RAISED
    ELSE IF IsInf(x) THEN INF
    ELSE Dec(IcbrtIter(ScaledFloor(x, 6), 0, 1290), -2)

Pi == Dec(3142, -3)

(***************************************************************************)
(* The four limit-state verifiers.  Beside the fields of the returned       *)
(* record, each result carries a ghost field: the unrounded utilization    *)
(* the status was decided on, the capacity it was divided by and, for the  *)
(* crack width, the decompression moment and the quantities computed.      *)
(***************************************************************************)
\* the returned utilization: actual / capacity, inf when the capacity is not
\* positive (flexure line 476, shear line 552)
UtilizationOrInf(actual, capacity) ==
    IF QLt(I(0), capacity) THEN QDiv(actual, capacity) ELSE INF

\* deflection line 608, crack width line 709: 0 when the limit is not positive
UtilizationOrZero(actual, limit) ==
    IF QLt(I(0), limit) THEN QDiv(actual, limit) ELSE I(0)

\* status = "PASS" if utilization <= 1.0 else "FAIL"  (the mutant decides on
\* the rounded utilization that is returned)
StatusOf_rounded(utilization) ==
    IF QLe(Round(utilization, 3), I(1)) THEN "PASS" ELSE "FAIL"

StatusOf(utilization) == IF QLe(utilization, I(1)) THEN "PASS" ELSE "FAIL"

TendonArea(prestress) ==
    QMul(prestress.steel.strand_area, I(prestress.tendon.num_strands))

get_web_width_from_h(h) == QMul(h, Dec(3, -1))

\* P = stress * Ap / 1000 in kN, for the stress left after the given loss
TendonForce(prestress, loss) ==
    QDiv(QMul(QSub(prestress.jacking_stress, loss), TendonArea(prestress)), I(1000))

\* d = h - (h / 2 - eccentricity)
EffectiveDepth(h, eccentricity) == QSub(h, QSub(QDiv(h, Two), eccentricity))

\* -P * 1000 / A + sign * P * 1000 * e / Z - sign * M * 1e6 / Z
FiberStress(P, M, A, Z, eccentricity, sign) ==
    QAdd(QDiv(QMul(QNeg(P), I(1000)), A),
         QMul(sign, QSub(QDiv(QMul(QMul(P, I(1000)), eccentricity), Z),
                         QDiv(QMul(M, Dec(1, 6)), Z))))

FlexureResult(M_Ed, M_Rd, sigma_top_transfer, sigma_bot_transfer, sigma_top_service, sigma_bot_service, utilization) ==
    IF AnyRaised({sigma_top_transfer, sigma_bot_transfer,
                  sigma_top_service, sigma_bot_service})
    THEN [error |-> "ZeroDivisionError"]
    ELSE [error |-> "none",
          M_Ed |-> Round(M_Ed, 2),
          M_Rd |-> Round(M_Rd, 2),
          utilization |-> Round(utilization, 3),
          status |-> StatusOf(utilization),
          sigma_top_transfer |-> Round(sigma_top_transfer, 2),
          sigma_bot_transfer |-> Round(sigma_bot_transfer, 2),
          sigma_top_service |-> Round(sigma_top_service, 2),
          sigma_bot_service |-> Round(sigma_bot_service, 2),
          ghost |-> [utilization |-> utilization, capacity |-> M_Rd]]

\* the stress checks and the utilization, given the forces and the resistance
FlexureStresses(section_props, M_Ed, M_transfer, eccentricity, P_i, P_e, M_Rd) ==
    FlexureResult(M_Ed, M_Rd,
        FiberStress(P_i, M_transfer, section_props.area, section_props.Z_top,
                    eccentricity, I(1)),
        FiberStress(P_i, M_transfer, section_props.area, section_props.Z_bot,
                    eccentricity, I(-1)),
        FiberStress(P_e, M_Ed, section_props.area, section_props.Z_top,
                    eccentricity, I(1)),
        FiberStress(P_e, M_Ed, section_props.area, section_props.Z_bot,
                    eccentricity, I(-1)),
        UtilizationOrInf(M_Ed, M_Rd))

\* z = d - 0.4 * x if x > 0 else 0.9 * d;  M_Rd = Ap * fpd * z / 1e6
MomentResistance(force, d, x) ==
    QDiv(QMul(force, IF QLt(I(0), x) THEN QSub(d, QMul(Dec(4, -1), x))
                     ELSE QMul(Dec(9, -1), d)), Dec(1, 6))

FlexureULS(section_props, M_Ed, M_transfer, eccentricity, P_i, P_e, force, d, x) ==
    IF IsRaised(x) THEN [error |-> "ZeroDivisionError"]
    ELSE FlexureStresses(section_props, M_Ed, M_transfer, eccentricity, P_i, P_e,
                         MomentResistance(force, d, x))

\* force = Ap * fpd;  x = Ap * fpd / (0.8 * fcd * b) with b = 0.3 * h
NeutralAxis(force, fcd, h) ==
    QDiv(force, QMul(QMul(Dec(8, -1), fcd), get_web_width_from_h(h)))

FlexureForces(section_props, concrete, prestress, losses, M_Ed, M_transfer, eccentricity, h, force) ==
    FlexureULS(section_props, M_Ed, M_transfer, eccentricity,
               TendonForce(prestress, losses.total_immediate),
               TendonForce(prestress, losses.total), force,
               EffectiveDepth(h, eccentricity),
               NeutralAxis(force,
                           QDiv(QMul(Dec(85, -2), concrete.fck), Dec(15, -1)), h))

calculate_flexure(section_props, concrete, prestress, losses, M_Ed, M_transfer, eccentricity, h) ==
    FlexureForces(section_props, concrete, prestress, losses, M_Ed, M_transfer,
                  eccentricity, h,
                  QMul(TendonArea(prestress),
                       QDiv(prestress.steel.fp01k, Dec(115, -2))))

ShearResult(V_Ed, V_Rd_c, V_Rd_s, V_Rd_max, V_Rd, required, Asw_s, utilization) ==
    [error |-> "none",
     V_Ed |-> Round(V_Ed, 2),
     V_Rd_c |-> Round(V_Rd_c, 2),
     V_Rd_s |-> Round(V_Rd_s, 2),
     V_Rd_max |-> Round(V_Rd_max, 2),
     utilization |-> Round(utilization, 3),
     status |-> StatusOf(utilization),
     shear_reinforcement_required |-> required,
     Asw_s |-> IF required /\ Asw_s # I(0) THEN Round(Asw_s, 2) ELSE None,
     ghost |-> [utilization |-> utilization, capacity |-> V_Rd]]

\* V_Rd = min(V_Rd_c + V_Rd_s, V_Rd_max) if reinforcement is required else V_Rd_c
ShearUtilization(V_Ed, V_Rd_c, V_Rd_s, V_Rd_max, V_Rd, required, Asw_s) ==
    ShearResult(V_Ed, V_Rd_c, V_Rd_s, V_Rd_max, V_Rd, required, Asw_s,
                UtilizationOrInf(V_Ed, V_Rd))

ShearCapacity(V_Ed, V_Rd_c, V_Rd_s, V_Rd_max, required, Asw_s) ==
    ShearUtilization(V_Ed, V_Rd_c, V_Rd_s, V_Rd_max,
                     IF required THEN QMin(QAdd(V_Rd_c, V_Rd_s), V_Rd_max)
                     ELSE V_Rd_c,
                     required, Asw_s)

\* links resist the whole design shear: V_Rd_s = Asw_s * z * fywd * 2.5 / 1000
ShearLinks(V_Ed, V_Rd_c, V_Rd_max, required, Asw_s, lever) ==
    ShearCapacity(V_Ed, V_Rd_c,
                  IF required THEN QDiv(QMul(Asw_s, lever), I(1000)) ELSE I(0),
                  V_Rd_max, required, Asw_s)

\* lever = z * fywd * 2.5 with fywd = 500 / 1.15;  Asw_s = V_Ed * 1000 / lever
ShearReinforcement(V_Ed, V_Rd_c, V_Rd_max, required, lever) ==
    ShearLinks(V_Ed, V_Rd_c, V_Rd_max, required,
               IF required THEN QDiv(QMul(V_Ed, I(1000)), lever) ELSE None, lever)

ShearDemand(V_Ed, V_Rd_c, V_Rd_max, z) ==
    ShearReinforcement(V_Ed, V_Rd_c, V_Rd_max, QLt(V_Rd_c, V_Ed),
                       QMul(QMul(z, QDiv(I(500), Dec(115, -2))), Dec(25, -1)))

\* V_Rd_max = alpha_cw * bw * z * v1 * fcd / (2 * 1000), z = 0.9 * d
ShearStrut(V_Ed, V_Rd_c, bw, d, fck, fcd, alpha_cw) ==
    IF IsRaised(alpha_cw) THEN [error |-> "ZeroDivisionError"]
    ELSE ShearDemand(V_Ed, V_Rd_c,
             QDiv(FMul(QMul(QMul(alpha_cw, bw), QMul(Dec(9, -1), d)),
                       QMul(QMul(Dec(6, -1), QSub(I(1), QDiv(fck, I(250)))), fcd)),
                  I(2000)),
             QMul(Dec(9, -1), d))

\* V_Rd_c = max(V_Rd_c, V_Rd_c_min); alpha_cw = 1 + sigma_cp / fcd if sigma_cp > 0
ShearConcrete(V_Ed, bw, d, fck, fcd, sigma_cp, V_Rd_c0, V_Rd_c_min) ==
    ShearStrut(V_Ed, QMax(V_Rd_c0, V_Rd_c_min), bw, d, fck, fcd,
               IF QLt(I(0), sigma_cp) THEN Sig(QAdd(I(1), QDiv(sigma_cp, fcd)))
               ELSE I(1))

\* V_Rd_c = (C_Rd_c * k * (100 * rho_l * fck) ** (1/3) + k1 * sigma_cp) * bw * d
\* / 1000 and its minimum with v_min = 0.035 * k ** 1.5 * fck ** 0.5
ShearResistance(V_Ed, bw, d, fck, fcd, k, rho_l, sigma_cp) ==
    IF AnyRaised({k, rho_l, sigma_cp}) THEN [error |-> "ZeroDivisionError"]
    ELSE ShearConcrete(V_Ed, bw, d, fck, fcd, sigma_cp,
             QDiv(FMul(QAdd(QMul(QMul(QDiv(Dec(18, -2), Dec(15, -1)), k),
                                 Cbrt(QMul(QMul(I(100), rho_l), fck))),
                            QMul(Dec(15, -2), sigma_cp)), QMul(bw, d)), I(1000)),
             QDiv(FMul(QAdd(QMul(QMul(Dec(35, -3), QMul(k, Sqrt(k))), Sqrt(fck)),
                            QMul(Dec(15, -2), sigma_cp)), QMul(bw, d)), I(1000)))

\* k, rho_l and sigma_cp of EC2 6.2.2
ShearParameters(section_props, V_Ed, Ap, P_e, bw, d, fck, fcd) ==
    ShearResistance(V_Ed, bw, d, fck, fcd,
                    QMin(QAdd(I(1), Sqrt(QDiv(I(200), d))), Two),
                    QMin(QDiv(Ap, QMul(bw, d)), Dec(2, -2)),
                    QMin(QDiv(QMul(P_e, I(1000)), section_props.area),
                         QMul(Dec(2, -1), fcd)))

calculate_shear(section_props, section, concrete, prestress, losses, V_Ed, h) ==
    ShearParameters(section_props, V_Ed, TendonArea(prestress),
                    TendonForce(prestress, losses.total), get_web_width(section),
                    QMul(Dec(9, -1), h), concrete.fck,
                    QDiv(QMul(Dec(85, -2), concrete.fck), Dec(15, -1)))

DeflectionResult(delta_immediate, delta_long_term, delta_total, span_ratio, limit, utilization) ==
    [error |-> "none",
     delta_immediate |-> Round(delta_immediate, 2),
     delta_long_term |-> Round(delta_long_term, 2),
     delta_total |-> Round(delta_total, 2),
     span_ratio |-> Round(span_ratio, 1),
     limit |-> Round(limit, 2),
     utilization |-> Round(utilization, 3),
     status |-> StatusOf(utilization),
     ghost |-> [utilization |-> utilization, capacity |-> limit]]

\* limit = L / 250;  span_ratio = L / abs(delta_total) if delta_total != 0
DeflectionLimit(L, delta_immediate, delta_long_term, delta_total, limit) ==
    DeflectionResult(delta_immediate, delta_long_term, delta_total,
                     IF delta_total # I(0) THEN QDiv(L, QAbs(delta_total)) ELSE INF,
                     limit, UtilizationOrZero(QAbs(delta_total), limit))

DeflectionTotal(L, delta_immediate, delta_long_term) ==
    DeflectionLimit(L, delta_immediate, delta_long_term,
                    QAdd(delta_immediate, delta_long_term), QDiv(L, I(250)))

DeflectionLongTerm(concrete, L, delta_immediate) ==
    DeflectionTotal(L, delta_immediate,
                    QMul(delta_immediate, concrete.creep_coefficient))

DeflectionImmediate(concrete, L, delta_load, delta_prestress) ==
    IF AnyRaised({delta_load, delta_prestress}) THEN [error |-> "ZeroDivisionError"]
    ELSE DeflectionLongTerm(concrete, L, QSub(delta_load, delta_prestress))

\* delta_load = 5 * w * L^4 / (384 * Ecm * I) with w = total_udl / 1000 and
\* delta_prestress = P_e * 1000 * e * L^2 / (8 * Ecm * I)
DeflectionParts(section_props, concrete, total_udl, eccentricity, P_e, L, Ecm) ==
    DeflectionImmediate(concrete, L,
        QDiv(QMul(QMul(I(5), QDiv(total_udl, I(1000))), Sq(Sq(L))),
             QMul(QMul(I(384), Ecm), section_props.I)),
        QDiv(QMul(QMul(QMul(P_e, I(1000)), eccentricity), Sq(L)),
             QMul(QMul(I(8), Ecm), section_props.I)))

calculate_deflection(section_props, concrete, prestress, losses, span, total_udl, eccentricity) ==
    DeflectionParts(section_props, concrete, total_udl, eccentricity,
                    TendonForce(prestress, losses.total), QMul(span, I(1000)),
                    QMul(concrete.Ecm, I(1000)))

\* wk_limits.get(exposure_class, 0.3)
CrackWidthLimit(exposure_class) ==
    IF exposure_class = "X0" THEN Dec(4, -1)
    ELSE IF exposure_class \in {"XD3", "XS3"} THEN Dec(2, -1)
    ELSE Dec(3, -1)

\* M_dec = P_e * (1000 / A + 1000 * eccentricity / Z_b) * Z_b / 1e6
DecompressionMoment(section_props, prestress, losses, eccentricity) ==
    QDiv(QMul(QMul(TendonForce(prestress, losses.total),
                   QAdd(QDiv(I(1000), section_props.area),
                        QDiv(QMul(I(1000), eccentricity), section_props.Z_bot))),
              section_props.Z_bot), Dec(1, 6))

\* the result returned when no cracking is expected
UncrackedResult(M_dec) ==
    [error |-> "none", wk |-> I(0), wk_limit |-> Dec(2, -1),
     utilization |-> I(0), status |-> "PASS - Uncracked",
     sr_max |-> I(0), epsilon_sm_cm |-> I(0),
     ghost |-> [utilization |-> I(0), capacity |-> Dec(2, -1),
                M_dec |-> M_dec, computed |-> {}]]

CrackWidthResult(M_dec, sr_max, epsilon_sm_cm, wk, wk_limit, utilization) ==
    [error |-> "none", wk |-> Round(wk, 4), wk_limit |-> wk_limit,
     utilization |-> Round(utilization, 3),
     status |-> StatusOf(utilization),
     sr_max |-> Round(sr_max, 2),
     epsilon_sm_cm |-> Round(epsilon_sm_cm, 6),
     ghost |-> [utilization |-> utilization, capacity |-> wk_limit,
                M_dec |-> M_dec, computed |-> {"sr_max", "epsilon_sm_cm"}]]

CrackWidthUtilization(M_dec, sr_max, epsilon_sm_cm, wk, wk_limit) ==
    CrackWidthResult(M_dec, sr_max, epsilon_sm_cm, wk, wk_limit,
                     UtilizationOrZero(wk, wk_limit))

\* wk = sr_max * epsilon_sm_cm against the limit of the exposure class
CrackWidthValue(M_dec, sr_max, epsilon_sm_cm, exposure_class) ==
    IF AnyRaised({sr_max, epsilon_sm_cm}) THEN [error |-> "ZeroDivisionError"]
    ELSE CrackWidthUtilization(M_dec, sr_max, epsilon_sm_cm,
                               FMul(sr_max, epsilon_sm_cm),
                               CrackWidthLimit(exposure_class))

\* sr_max = k3 * c + k1 * k2 * k4 * phi_s / rho_p_eff and epsilon_sm_cm =
\* max((sigma_s - kt * fct_eff / rho_p_eff * (1 + alpha_e * rho_p_eff)) / Es,
\*     0.6 * sigma_s / Es)
CrackSpacing(concrete, M_dec, Es, alpha_e, sigma_s, phi_s, rho_p_eff, exposure_class) ==
    IF IsRaised(rho_p_eff) THEN [error |-> "ZeroDivisionError"]
    ELSE CrackWidthValue(M_dec,
             QAdd(QMul(Dec(34, -1), I(cover)),
                  QDiv(QMul(QMul(QMul(Dec(8, -1), Dec(5, -1)), Dec(425, -3)), phi_s),
                       rho_p_eff)),
             QMax(QDiv(QSub(sigma_s,
                            QMul(QDiv(QMul(Dec(4, -1), concrete.fctm), rho_p_eff),
                                 QAdd(I(1), QMul(alpha_e, rho_p_eff)))), Es),
                  QDiv(QMul(Dec(6, -1), sigma_s), Es)),
             exposure_class)

\* phi_s = sqrt(4 * strand_area / pi);  rho_p_eff = min(Ap / (2.5 * (h - d) * b),
\* 0.05) with b = 0.3 * h
Cracked(concrete, prestress, M_dec, Es, alpha_e, sigma_s, d, h, exposure_class) ==
    CrackSpacing(concrete, M_dec, Es, alpha_e, sigma_s,
                 Sqrt(QDiv(QMul(I(4), prestress.steel.strand_area), Pi)),
                 QMin(QDiv(TendonArea(prestress),
                           QMul(QMul(Dec(25, -1), QSub(h, d)),
                                get_web_width_from_h(h))), Dec(5, -2)),
                 exposure_class)

\* if M_Ed <= M_dec: no cracking expected
Decompression(concrete, prestress, M_Ed, M_dec, Es, alpha_e, sigma_s, d, h, exposure_class) ==
    IF AnyRaised({alpha_e, sigma_s, M_dec}) THEN [error |-> "ZeroDivisionError"]
    ELSE IF QLe(M_Ed, M_dec) THEN UncrackedResult(M_dec)
    ELSE Cracked(concrete, prestress, M_dec, Es, alpha_e, sigma_s, d, h,
                 exposure_class)

\* sigma_s = M_Ed * 1e6 / (Ap * z) - sigma_pe + sigma_pe with z = 0.9 * d, then
\* the decompression moment
SteelStress(section_props, concrete, prestress, losses, M_Ed, eccentricity, h, exposure_class, Es, d) ==
    Decompression(concrete, prestress, M_Ed,
                  DecompressionMoment(section_props, prestress, losses, eccentricity),
                  Es, QDiv(Es, QMul(concrete.Ecm, I(1000))),
                  QDiv(QMul(M_Ed, Dec(1, 6)),
                       QMul(TendonArea(prestress), QMul(Dec(9, -1), d))),
                  d, h, exposure_class)

calculate_crack_width(section_props, concrete, prestress, losses, M_Ed, eccentricity, h, exposure_class) ==
    SteelStress(section_props, concrete, prestress, losses, M_Ed, eccentricity, h,
                exposure_class, QMul(prestress.steel.Ep, I(1000)),
                EffectiveDepth(h, eccentricity))

(***************************************************************************)
(* calculate_prestress_losses.  math.exp is taken from a table of e^k and  *)
(* e^(j/10) with a quadratic remainder; the products that hold it (the     *)
(* friction loss, the factors of the relaxation product) are rounded to   *)
(* four significant digits, as a float rounds each product.               *)
(***************************************************************************)
\* e^k, k = 0 .. 10, and e^-k, k = 1 .. 10
ExpNonNeg ==
    <<I(1), Dec(2718, -3), Dec(7389, -3), Dec(2009, -2), Dec(5460, -2),
      Dec(1484, -1), Dec(4034, -1), I(1097), I(2981), I(8103), I(22030)>>

ExpNeg ==
    <<Dec(3679, -4), Dec(1353, -4), Dec(4979, -5), Dec(1832, -5), Dec(6738, -6),
      Dec(2479, -6), Dec(9119, -7), Dec(3355, -7), Dec(1234, -7), Dec(4540, -8)>>

\* 1000 * e^(j/10), j = 0 .. 9
ExpTenth == <<1000, 1105, 1221, 1350, 1492, 1649, 1822, 2014, 2226, 2460>>

\* e^(m / 1000) for an integer m in -10000 .. 10999
ExpMilli(m) ==
    QMul(IF m >= 0 THEN ExpNonNeg[m \div 1000 + 1] ELSE ExpNeg[-(m \div 1000)],
         Dec((ExpTenth[(m % 1000) \div 100 + 1]
              * (10000 + 10 * (m % 100) + ((m % 100) * (m % 100)) \div 200))
             \div 1000, -4))

ExpClamp(m) == ExpMilli(IF m < -10000 THEN -10000 ELSE IF m > 10999 THEN 10999 ELSE m)

\* math.exp(x)
Exp(x) ==
    IF IsRaised(x) THEN RAISED
    ELSE Sig(ExpClamp(Sign(x) * RoundPos(Abs(x.n), x.d, x.e + 3)))

\* (500000 / 1000) ** 0.75
Pow075 == Dec(1057, -1)

\* sigma_cp = P_i * 1000 / A + (P_i * 1000 * e ** 2) / I
TendonLevelStress(section_props, P_i, eccentricity) ==
    QAdd(QDiv(QMul(P_i, I(1000)), section_props.area),
         QDiv(QMul(QMul(P_i, I(1000)), Sq(eccentricity)), section_props.I))

\* theta = 4 * sag / span for the parabolic profiles, else 0
AngleChange(tendon, span, eccentricity) ==
    IF tendon.profile_type \in {"parabolic", "multi_parabolic"}
    THEN QDiv(QMul(I(4), QDiv(QAbs(QSub(OrElse(tendon.e_mid, eccentricity),
                                        OrElse(tendon.e_end, I(0)))), I(1000))),
              span)
    ELSE I(0)

\* friction = sigma_pi * (1 - exp(-mu * theta - k * x)), x = span / 2
FrictionLoss(prestress, span, eccentricity) ==
    IF prestress.prestress_type = "post_tensioned"
    THEN Sig(QMul(prestress.jacking_stress,
                  QSub(I(1), Exp(QSub(QMul(QNeg(prestress.friction_coefficient),
                                           AngleChange(prestress.tendon, span,
                                                       eccentricity)),
                                      QMul(prestress.wobble_coefficient,
                                           QDiv(span, Two)))))))
    ELSE I(0)

\* anchorage_slip = delta_s * Ep / (span * 1000) with delta_s = 6
AnchorageSlip_ungated(prestress, span, Ep) == QDiv(QMul(I(6), Ep), QMul(span, I(1000)))

AnchorageSlip(prestress, span, Ep) ==
    IF prestress.prestress_type = "post_tensioned"
    THEN QDiv(QMul(I(6), Ep), QMul(span, I(1000)))
    ELSE I(0)

\* coef * rho_1000 * exp(rate * mu_val) * 500 ** 0.75 * (1 - mu_val) * sigma_pi / 100
RelaxationProduct(coef, rate, rho_1000, mu_val, sigma_pi) ==
    QDiv(FMul(FMul(FMul(FMul(QMul(coef, rho_1000), Exp(QMul(rate, mu_val))),
                        Pow075), QSub(I(1), mu_val)), sigma_pi), I(100))

RelaxationLoss(steel, mu_val, sigma_pi) ==
    IF steel.relaxation_class = 2
    THEN RelaxationProduct(Dec(66, -2), Dec(91, -1),
                           QDiv(steel.relaxation_loss_1000h, I(100)), mu_val,
                           sigma_pi)
    ELSE RelaxationProduct(Dec(539, -2), Dec(67, -1),
                           QDiv(steel.relaxation_loss_1000h, I(100)), mu_val,
                           sigma_pi)

\* relaxation = min(relaxation, 0.08 * sigma_pi)  (the mutant leaves the cap out)
CapRelaxation_uncapped(relaxation, sigma_pi) == relaxation

CapRelaxation(relaxation, sigma_pi) == QMin(relaxation, QMul(Dec(8, -2), sigma_pi))

LossesResult(elastic_shortening, friction, anchorage_slip, creep, shrinkage, relaxation, total_immediate, total_time_dependent, total, loss_ratio) ==
    IF IsRaised(loss_ratio) THEN [error |-> "ZeroDivisionError"]
    ELSE [error |-> "none",
          elastic_shortening |-> Round(elastic_shortening, 2),
          friction |-> Round(friction, 2),
          anchorage_slip |-> Round(anchorage_slip, 2),
          creep |-> Round(creep, 2),
          shrinkage |-> Round(shrinkage, 2),
          relaxation |-> Round(relaxation, 2),
          total_immediate |-> Round(total_immediate, 2),
          total_time_dependent |-> Round(total_time_dependent, 2),
          total |-> Round(total, 2),
          loss_ratio |-> Round(loss_ratio, 1),
          ghost |-> [elastic_shortening |-> elastic_shortening,
                     friction |-> friction, anchorage_slip |-> anchorage_slip,
                     creep |-> creep, shrinkage |-> shrinkage,
                     relaxation |-> relaxation, total_immediate |-> total_immediate,
                     total_time_dependent |-> total_time_dependent,
                     total |-> total, loss_ratio |-> loss_ratio]]

\* loss_ratio = (total / sigma_pi) * 100
LossesRatio(sigma_pi, elastic_shortening, friction, anchorage_slip, creep, shrinkage, relaxation, total_immediate, total_time_dependent, total) ==
    LossesResult(elastic_shortening, friction, anchorage_slip, creep, shrinkage,
                 relaxation, total_immediate, total_time_dependent, total,
                 QMul(QDiv(total, sigma_pi), I(100)))

LossesTotal(sigma_pi, elastic_shortening, friction, anchorage_slip, creep, shrinkage, relaxation, total_immediate, total_time_dependent) ==
    LossesRatio(sigma_pi, elastic_shortening, friction, anchorage_slip, creep,
                shrinkage, relaxation, total_immediate, total_time_dependent,
                QAdd(total_immediate, total_time_dependent))

\* total_time_dependent = creep + shrinkage + relaxation  (the mutant leaves the
\* relaxation out of the sum)
LossesTimeDependent_norelaxation(sigma_pi, elastic_shortening, friction, anchorage_slip, creep, shrinkage, relaxation, total_immediate) ==
    LossesTotal(sigma_pi, elastic_shortening, friction, anchorage_slip, creep,
                shrinkage, relaxation, total_immediate, QAdd(creep, shrinkage))

LossesTimeDependent(sigma_pi, elastic_shortening, friction, anchorage_slip, creep, shrinkage, relaxation, total_immediate) ==
    LossesTotal(sigma_pi, elastic_shortening, friction, anchorage_slip, creep,
                shrinkage, relaxation, total_immediate,
                QAdd(QAdd(creep, shrinkage), relaxation))

\* mu_val = (sigma_pi - total_immediate) / fpk, then the capped relaxation
LossesRelaxation(prestress, elastic_shortening, friction, anchorage_slip, creep, shrinkage, total_immediate, mu_val) ==
    IF IsRaised(mu_val) THEN [error |-> "ZeroDivisionError"]
    ELSE LossesTimeDependent(prestress.jacking_stress, elastic_shortening, friction,
             anchorage_slip, creep, shrinkage,
             CapRelaxation(RelaxationLoss(prestress.steel, mu_val,
                                          prestress.jacking_stress),
                           prestress.jacking_stress),
             total_immediate)

LossesImmediate(prestress, elastic_shortening, friction, anchorage_slip, creep, shrinkage, total_immediate) ==
    LossesRelaxation(prestress, elastic_shortening, friction, anchorage_slip, creep,
                     shrinkage, total_immediate,
                     QDiv(QSub(prestress.jacking_stress, total_immediate),
                          prestress.steel.fpk))

\* elastic shortening in full when pretensioned, else half; creep and shrinkage
LossesElastic(prestress, concrete, Ep, sigma_cp, delta_elastic, elastic_shortening, friction, anchorage_slip) ==
    IF AnyRaised({sigma_cp, delta_elastic, friction, anchorage_slip})
    THEN [error |-> "ZeroDivisionError"]
    ELSE LossesImmediate(prestress, elastic_shortening, friction, anchorage_slip,
             QMul(QMul(QDiv(Ep, QMul(concrete.Ecm, I(1000))),
                       concrete.creep_coefficient), sigma_cp),
             QMul(concrete.shrinkage_strain, Ep),
             QAdd(QAdd(elastic_shortening, friction), anchorage_slip))

LossesShortening(prestress, concrete, span, eccentricity, Ep, sigma_cp, delta_elastic) ==
    LossesElastic(prestress, concrete, Ep, sigma_cp, delta_elastic,
                  IF prestress.prestress_type = "pretensioned" THEN delta_elastic
                  ELSE QDiv(delta_elastic, Two),
                  FrictionLoss(prestress, span, eccentricity),
                  AnchorageSlip(prestress, span, Ep))

LossesStress(prestress, concrete, span, eccentricity, Ep, sigma_cp) ==
    LossesShortening(prestress, concrete, span, eccentricity, Ep, sigma_cp,
                     QMul(QDiv(Ep, QMul(concrete.Ecm, I(1000))), sigma_cp))

calculate_prestress_losses(prestress, section_props, concrete, span, eccentricity) ==
    LossesStress(prestress, concrete, span, eccentricity,
                 QMul(prestress.steel.Ep, I(1000)),
                 TendonLevelStress(section_props,
                     QDiv(QMul(prestress.jacking_stress, TendonArea(prestress)),
                          I(1000)),
                     eccentricity))

(***************************************************************************)
(* calculate_moments_and_shear, check_cable_concordancy and                *)
(* perform_full_analysis.  A result carries, as ghost, the demands and the *)
(* eccentricity used; an analysis that raises yields the error with the    *)
(* stages that had run.                                                    *)
(***************************************************************************)
\* the contribution of the point loads of one load case to M_max and V_max
RECURSIVE PointLoadSum(_, _, _, _)
PointLoadSum(point_loads, span, factor, acc) ==
    IF point_loads = <<>> THEN acc
    ELSE PointLoadSum(Tail(point_loads), span, factor,
             [M |-> QAdd(acc.M,
                         QDiv(QMul(QMul(QMul(Head(point_loads).magnitude, factor),
                                        Head(point_loads).position),
                                   QSub(span, Head(point_loads).position)), span)),
              V |-> QAdd(acc.V,
                         QDiv(QMul(QMul(Head(point_loads).magnitude, factor),
                                   QMax(Head(point_loads).position,
                                        QSub(span, Head(point_loads).position))),
                              span))])

\* each load case scaled by its own load_factor_uls in place of the factor
RECURSIVE LoadCaseSum_ownfactor(_, _, _, _)
LoadCaseSum_ownfactor(load_cases, span, factor, acc) ==
    IF load_cases = <<>> THEN acc
    ELSE LoadCaseSum_ownfactor(Tail(load_cases), span, factor,
             [total_udl |-> QAdd(acc.total_udl,
                                 QMul(Head(load_cases).udl, Head(load_cases).load_factor_uls)),
              sums |-> PointLoadSum(Head(load_cases).point_loads, span,
                                    Head(load_cases).load_factor_uls, acc.sums)])

\* the loop over the load cases: total_udl and the point load sums
RECURSIVE LoadCaseSum(_, _, _, _)
LoadCaseSum(load_cases, span, factor, acc) ==
    IF load_cases = <<>> THEN acc
    ELSE LoadCaseSum(Tail(load_cases), span, factor,
             [total_udl |-> QAdd(acc.total_udl, QMul(Head(load_cases).udl, factor)),
              sums |-> PointLoadSum(Head(load_cases).point_loads, span, factor,
                                    acc.sums)])

\* the larger of the point load and the udl effects in place of their sum
MomentsAndShear_envelope(span, acc, M_udl, V_udl) ==
    IF AnyRaised({acc.sums.M, acc.sums.V}) THEN [error |-> "ZeroDivisionError"]
    ELSE [error |-> "none", M_max |-> QMax(acc.sums.M, M_udl),
          V_max |-> QMax(acc.sums.V, V_udl), M_udl |-> M_udl,
          total_udl |-> acc.total_udl]

\* M_udl = total_udl * span ** 2 / 8, V_udl = total_udl * span / 2
MomentsAndShear(span, acc, M_udl, V_udl) ==
    IF AnyRaised({acc.sums.M, acc.sums.V}) THEN [error |-> "ZeroDivisionError"]
    ELSE [error |-> "none", M_max |-> QAdd(acc.sums.M, M_udl),
          V_max |-> QAdd(acc.sums.V, V_udl), M_udl |-> M_udl,
          total_udl |-> acc.total_udl]

LoadEffects(span, acc) ==
    MomentsAndShear(span, acc, QDiv(QMul(acc.total_udl, Sq(span)), I(8)),
                    QDiv(QMul(acc.total_udl, span), Two))

\* the self weight entering total_udl without the factor
calculate_moments_and_shear_plainweight(span, load_cases, self_weight_udl, factor) ==
    LoadEffects(span,
        LoadCaseSum(load_cases, span, factor,
                    [total_udl |-> self_weight_udl,
                     sums |-> [M |-> I(0), V |-> I(0)]]))

calculate_moments_and_shear(span, load_cases, self_weight_udl, factor) ==
    LoadEffects(span,
        LoadCaseSum(load_cases, span, factor,
                    [total_udl |-> QMul(self_weight_udl, factor),
                     sums |-> [M |-> I(0), V |-> I(0)]]))

\* abs(e) < y_b - 50
WithinSection(e, y_b) == QLt(QAbs(e), QSub(y_b, I(50)))

check_cable_concordancy(tendon, section_props, h) ==
    IF tendon.profile_type = "straight"
    THEN WithinSection(OrElse(tendon.eccentricity, I(0)), section_props.y_bot)
    ELSE IF tendon.profile_type \in {"parabolic", "multi_parabolic"}
    THEN /\ WithinSection(OrElse(tendon.e_mid, I(0)), section_props.y_bot)
         /\ WithinSection(OrElse(tendon.e_end, I(0)), section_props.y_bot)
    ELSE IF tendon.profile_type = "harped"
    THEN /\ WithinSection(OrElse(tendon.e_support, I(0)), section_props.y_bot)
         /\ WithinSection(OrElse(tendon.e_drape, I(0)), section_props.y_bot)
    ELSE TRUE

\* the eccentricity the analysis uses: the profile's own, or 0.7 * y_bot
AnalysisEccentricity(tendon, section_props) ==
    IF tendon.profile_type = "straight"
    THEN OrElse(tendon.eccentricity, QMul(section_props.y_bot, Dec(7, -1)))
    ELSE IF tendon.profile_type \in {"parabolic", "multi_parabolic"}
    THEN OrElse(tendon.e_mid, QMul(section_props.y_bot, Dec(7, -1)))
    ELSE IF tendon.profile_type = "harped"
    THEN OrElse(tendon.e_drape, QMul(section_props.y_bot, Dec(7, -1)))
    ELSE QMul(section_props.y_bot, Dec(7, -1))

\* "Uncracked" in s, over the statuses the verifiers produce
ContainsUncracked(s) == s = "PASS - Uncracked"

\* "PASS" if all(s == "PASS" or "Uncracked" in s for s in checks) else "FAIL"
\* (the mutant takes only "PASS" for a pass)
OverallStatus_strict(checks) ==
    IF \A i \in 1..Len(checks) : checks[i] = "PASS" THEN "PASS" ELSE "FAIL"

OverallStatus(checks) ==
    IF \A i \in 1..Len(checks) : checks[i] = "PASS" \/ ContainsUncracked(checks[i])
    THEN "PASS"
    ELSE "FAIL"

\* the stages of perform_full_analysis, in the order they run
Stages ==
    <<"calculate_section_properties", "calculate_moments_and_shear",
      "calculate_prestress_losses", "calculate_magnel_diagram",
      "calculate_flexure", "calculate_shear", "calculate_deflection",
      "calculate_crack_width", "check_cable_concordancy">>

\* the exception leaves perform_full_analysis from stage k: nothing is returned
Raise(error, k) == [error |-> error, calls |-> SubSeq(Stages, 1, k)]

\* the AnalysisResults returned, with the overall status
AnalysisResult(in, r, concordancy) ==
    [error |-> "none",
     section_properties |-> r.section_props,
     prestress_losses |-> r.losses,
     magnel_diagram |-> r.magnel,
     flexure |-> r.flexure,
     shear |-> r.shear,
     deflection |-> r.deflection,
     crack_width |-> r.crack_width,
     cable_concordancy |-> concordancy,
     overall_status |-> OverallStatus(<<r.flexure.status, r.shear.status,
                                        r.deflection.status,
                                        r.crack_width.status>>),
     calls |-> Stages,
     ghost |-> [eccentricity |-> r.eccentricity, self_weight_udl |-> r.self_weight_udl,
                transfer |-> r.transfer, service |-> r.service, uls |-> r.uls]]

AnalysisConcordancy(in, r) ==
    IF Failed(r.crack_width) THEN Raise(r.crack_width.error, 8)
    ELSE AnalysisResult(in, r,
             check_cable_concordancy(in.prestress.tendon, r.section_props, r.h))

\* the crack width evaluated with the ultimate moment
AnalysisCrackWidth_ultimate(in, r) ==
    IF Failed(r.deflection) THEN Raise(r.deflection.error, 7)
    ELSE AnalysisConcordancy(in,
             [crack_width |->
                  calculate_crack_width(r.section_props, in.concrete, in.prestress,
                                        r.losses, r.uls.M_max, r.eccentricity,
                                        r.h, "XC1")] @@ r)

AnalysisCrackWidth(in, r) ==
    IF Failed(r.deflection) THEN Raise(r.deflection.error, 7)
    ELSE AnalysisConcordancy(in,
             [crack_width |->
                  calculate_crack_width(r.section_props, in.concrete, in.prestress,
                                        r.losses, r.service.M_max, r.eccentricity,
                                        r.h, "XC1")] @@ r)

AnalysisDeflection(in, r) ==
    IF Failed(r.shear) THEN Raise(r.shear.error, 6)
    ELSE AnalysisCrackWidth(in,
             [deflection |->
                  calculate_deflection(r.section_props, in.concrete, in.prestress,
                                       r.losses, in.span, r.service.total_udl,
                                       r.eccentricity)] @@ r)

AnalysisShear(in, r) ==
    IF Failed(r.flexure) THEN Raise(r.flexure.error, 5)
    ELSE AnalysisDeflection(in,
             [shear |-> calculate_shear(r.section_props, in.section, in.concrete,
                                        in.prestress, r.losses, r.uls.V_max, r.h)]
             @@ r)

AnalysisFlexure(in, r) ==
    IF Failed(r.magnel) THEN Raise(r.magnel.error, 4)
    ELSE AnalysisShear(in,
             [flexure |-> calculate_flexure(r.section_props, in.concrete,
                                            in.prestress, r.losses, r.uls.M_max,
                                            r.transfer.M_max, r.eccentricity, r.h)]
             @@ r)

AnalysisMagnel(in, r) ==
    IF Failed(r.losses) THEN Raise(r.losses.error, 3)
    ELSE AnalysisFlexure(in,
             [magnel |-> calculate_magnel_diagram(r.section_props, in.concrete,
                                                  r.transfer.M_max, r.service.M_max,
                                                  r.losses, r.h)] @@ r)

AnalysisLosses(in, r) ==
    IF Failed(r.transfer) \/ Failed(r.service) \/ Failed(r.uls)
    THEN Raise("ZeroDivisionError", 2)
    ELSE AnalysisMagnel(in,
             [losses |-> calculate_prestress_losses(in.prestress, r.section_props,
                                                    in.concrete, in.span,
                                                    r.eccentricity)] @@ r)

\* at transfer (self-weight only), at service and at ULS (self-weight * 1.35
\* with the factor 1.5)
AnalysisDemands(in, r) ==
    AnalysisLosses(in,
        [transfer |-> calculate_moments_and_shear(in.span, <<>>, r.self_weight_udl,
                                                  I(1)),
         service |-> calculate_moments_and_shear(in.span, in.load_cases,
                                                 r.self_weight_udl, I(1)),
         uls |-> calculate_moments_and_shear(in.span, in.load_cases,
                                             QMul(r.self_weight_udl, Dec(135, -2)),
                                             Dec(15, -1))] @@ r)

\* section properties first; then the height, the self weight and the eccentricity
AnalysisSection(in, section_props) ==
    IF Failed(section_props) THEN Raise(section_props.error, 1)
    ELSE AnalysisDemands(in,
             [section_props |-> section_props,
              h |-> get_section_height(in.section),
              self_weight_udl |->
                  IF in.include_self_weight
                  THEN QDiv(QMul(section_props.area, in.concrete.density), Dec(1, 6))
                  ELSE I(0),
              eccentricity |-> AnalysisEccentricity(in.prestress.tendon,
                                                    section_props)])

perform_full_analysis(span, section, concrete, prestress, load_cases, include_self_weight) ==
    AnalysisSection([span |-> span, section |-> section, concrete |-> concrete,
                     prestress |-> prestress, load_cases |-> load_cases,
                     include_self_weight |-> include_self_weight],
                    calculate_section_properties(section))

(***************************************************************************)
(* Inputs                                                                  *)
(***************************************************************************)
MaxHeightStep == 3

MaxMomentStep == 2

MaxLossStep == 2

\* the four section shapes, positive dimensions, scaled to a total height of
\* 50, 100, ... mm
Sections ==
    UNION {{Rect(40 * k, 50 * k),
            TBeam(10 * k, 30 * k, 20 * k, 50 * k),
            IBeam(10 * k, 30 * k, 20 * k, 10 * k, 10 * k, 50 * k),
            BoxGirder(40 * k, 20 * k, 30 * k, 10 * k, 10 * k, 5 * k, 50 * k)}
           : k \in 1..MaxHeightStep}

\* moments in kNm
Moments == {I(m) : m \in 0..MaxMomentStep}

\* moments at transfer in kNm
TransferMoments == {I(0), I(1)}

\* loss ratios in percent: 0, 50, 100
LossRatios == {I(50 * k) : k \in 0..MaxLossStep}

Concrete(fck) ==
    [fck |-> I(fck), fctm |-> Dec(35, -1), Ecm |-> I(35), density |-> I(25),
     creep_coefficient |-> I(2), shrinkage_strain |-> Dec(3, -4)]

Concretes == {Concrete(40)}

MaxStrands == 2

MaxSpan == 2

Steel(relaxation_class) ==
    [fp01k |-> I(1150), fpk |-> I(2000), Ep |-> I(200), strand_area |-> I(10),
     relaxation_class |-> relaxation_class, relaxation_loss_1000h |-> Dec(25, -1)]

\* TendonGeometry: the eccentricity fields that are not supplied are None
Tendon(profile_type, num_strands, ecc) ==
    [profile_type |-> profile_type, num_strands |-> num_strands,
     eccentricity |-> IF profile_type = "straight" THEN ecc ELSE None,
     e_end |-> IF profile_type \in {"parabolic", "multi_parabolic"} THEN I(0) ELSE None,
     e_mid |-> IF profile_type \in {"parabolic", "multi_parabolic"} THEN ecc ELSE None,
     e_support |-> IF profile_type = "harped" THEN I(0) ELSE None,
     e_drape |-> IF profile_type = "harped" THEN ecc ELSE None]

Prestress(prestress_type, jacking_stress, tendon, relaxation_class) ==
    [prestress_type |-> prestress_type, jacking_stress |-> jacking_stress,
     tendon |-> tendon, steel |-> Steel(relaxation_class),
     friction_coefficient |-> Dec(2, -1), wobble_coefficient |-> Dec(1, -2)]

\* the losses handed to the verifiers
Losses == [total |-> I(200), total_immediate |-> I(100), loss_ratio |-> I(20)]

\* demands (kNm, kN, kN/m); 0.951 kNm lies within 0.05 % above the moment
\* resistance of a 150 mm high section with one strand at e = 25 mm
Demands == Moments \cup {Dec(951, -3)}

\* shear forces in kN; 30 kN exceeds the concrete resistance of every section
ShearDemands == Demands \cup {I(30)}

Eccentricities == {I(0), I(25)}

Spans == {I(m) : m \in 0..MaxSpan}

ExposureClasses == {"X0", "XC1", "XS3", "XA1"}

(***************************************************************************)
(* Magnel diagram of a section: section properties, then the diagram       *)
(* (perform_full_analysis, lines 762-763 and 801-803)                      *)
(***************************************************************************)
MagnelArgs ==
    [section : Sections, concrete : Concretes, M_min : TransferMoments, M_max : Moments,
     loss_ratio : LossRatios]

InitMagnel ==
    /\ pc = "ready"
    /\ fn = "calculate_magnel_diagram"
    /\ args \in MagnelArgs
    /\ ret = None
    /\ Offline

CallMagnel ==
    /\ pc = "ready"
    /\ fn = "calculate_magnel_diagram"
    /\ LET sp == calculate_section_properties(args.section)
       IN  ret' = [section_props |-> sp,
                   magnel |-> IF Failed(sp) THEN sp
                              ELSE calculate_magnel_diagram(
                                       sp, args.concrete, args.M_min, args.M_max,
                                       [loss_ratio |-> args.loss_ratio],
                                       get_section_height(args.section))]
    /\ pc' = "done"
    /\ UNCHANGED <<fn, args, db, host>>

NextMagnel == CallMagnel

SpecMagnel == InitMagnel /\ [][NextMagnel]_vars

MagnelReturned ==
    pc = "done" /\ fn = "calculate_magnel_diagram" /\ ~Failed(ret.magnel)

MagnelLines(m) ==
    {m.line1_top_transfer, m.line2_bot_transfer, m.line3_top_service,
     m.line4_bot_service}

\* the grid of the returned diagram
MagnelGrid(m) ==
    {GridValue(m.min_eccentricity, m.max_eccentricity, i) : i \in 0..(num_points - 1)}

PositiveSection(sp) ==
    ~Failed(sp) /\ QLt(I(0), sp.area) /\ QLt(I(0), sp.Z_top) /\ QLt(I(0), sp.Z_bot)

\* C6 (as claimed): calculate_magnel_diagram never raises a division error for
\* a section of positive area and moduli, whatever the moments and loss ratio
C6_NeverRaises ==
    (pc = "done" /\ fn = "calculate_magnel_diagram" /\ PositiveSection(ret.section_props))
        => ~Failed(ret.magnel)

\* C7 (as claimed): every point has inverse_force > 0 and a grid eccentricity,
\* and each line holds at most 50 points in increasing eccentricity order
C7_IncreasingOrder ==
    MagnelReturned =>
        LET grid == MagnelGrid(ret.magnel)
        IN  \A line \in MagnelLines(ret.magnel) :
            /\ Len(line) <= num_points
            /\ \A i \in 1..Len(line) :
                  /\ QLt(I(0), line[i].inverse_force)
                  /\ line[i].eccentricity \in grid
            /\ \A i \in 1..(Len(line) - 1) :
                  QLt(line[i].eccentricity, line[i + 1].eccentricity)

\* C7 (amended): every point has inverse_force > 0 and a grid eccentricity, each
\* line holds at most 50 points, in the order of the grid: increasing
\* eccentricity when min_eccentricity < max_eccentricity, decreasing when
\* min_eccentricity > max_eccentricity, all equal when the two bounds are equal
C7_GridOrder ==
    MagnelReturned =>
        LET grid == MagnelGrid(ret.magnel)
        IN  \A line \in MagnelLines(ret.magnel) :
            /\ Len(line) <= num_points
            /\ \A i \in 1..Len(line) :
                  /\ QLt(I(0), line[i].inverse_force)
                  /\ line[i].eccentricity \in grid
            /\ \A i \in 1..(Len(line) - 1) :
                  LET a == line[i].eccentricity
                      b == line[i + 1].eccentricity
                      lo == ret.magnel.min_eccentricity
                      hi == ret.magnel.max_eccentricity
                  IN  /\ QLt(lo, hi) => QLt(a, b)
                      /\ QLt(hi, lo) => QLt(b, a)
                      /\ lo = hi => a = b

\* a returned diagram with a line of several points on an increasing grid, a
\* line that omitted points, and another diagram on a decreasing grid
C7_Witness ==
    /\ MagnelReturned
    /\ QLt(ret.magnel.min_eccentricity, ret.magnel.max_eccentricity)
    /\ Len(ret.magnel.line1_top_transfer) \in 2..(num_points - 1)
    /\ Len(ret.magnel.line4_bot_service) > 1

\* C8: for each of the four shapes with positive dimensions and height above
\* 100 mm, min_eccentricity = -(y_top - 50) < max_eccentricity = y_bot - 50,
\* and y_top + y_bot = h
C8_EccentricityBounds ==
    (MagnelReturned /\ QLt(I(2 * cover), get_section_height(args.section))) =>
        /\ ret.magnel.min_eccentricity = QNeg(QSub(ret.section_props.y_top, I(cover)))
        /\ ret.magnel.max_eccentricity = QSub(ret.section_props.y_bot, I(cover))
        /\ QLt(ret.magnel.min_eccentricity, ret.magnel.max_eccentricity)
        /\ QAdd(ret.section_props.y_top, ret.section_props.y_bot)
              = get_section_height(args.section)

\* a diagram was returned for a box girder higher than 100 mm whose centroid is
\* not at mid-height
C8_Witness ==
    /\ MagnelReturned
    /\ args.section.section_type = "box_girder"
    /\ QLt(I(2 * cover), get_section_height(args.section))
    /\ ret.section_props.y_top # ret.section_props.y_bot

(***************************************************************************)
(* The four limit-state verifiers, each called on its own                  *)
(***************************************************************************)
Verifiers ==
    {"calculate_flexure", "calculate_shear", "calculate_deflection",
     "calculate_crack_width"}

\* sections of 150 mm height, one of each shape
VerifierSections ==
    {Rect(120, 150), TBeam(30, 90, 60, 150), IBeam(30, 90, 60, 30, 30, 150),
     BoxGirder(120, 60, 90, 30, 30, 15, 150)}

\* the arguments that matter to a verifier vary, the others stay fixed
VerifierArgs(f) ==
    [section : VerifierSections,
     fck : IF f = "calculate_shear" THEN {40, 250} ELSE {40},
     num_strands : 0..MaxStrands,
     eccentricity : IF f = "calculate_shear" THEN {I(0)} ELSE Eccentricities,
     demand : IF f = "calculate_shear" THEN ShearDemands ELSE Demands,
     span : IF f = "calculate_deflection" THEN Spans ELSE {I(1)},
     exposure_class : IF f = "calculate_crack_width" THEN ExposureClasses
                      ELSE {"XC1"}]

InitVerify ==
    /\ pc = "ready"
    /\ fn \in Verifiers
    /\ args \in VerifierArgs(fn)
    /\ ret = None
    /\ Offline

ArgPrestress(a) ==
    Prestress("post_tensioned", I(1000),
              Tendon("straight", a.num_strands, a.eccentricity), 2)

CallFlexure ==
    /\ pc = "ready" /\ fn = "calculate_flexure"
    /\ ret' = calculate_flexure(calculate_section_properties(args.section),
                                Concrete(args.fck), ArgPrestress(args), Losses,
                                args.demand, I(0), args.eccentricity,
                                get_section_height(args.section))
    /\ pc' = "done"
    /\ UNCHANGED <<fn, args, db, host>>

CallShear ==
    /\ pc = "ready" /\ fn = "calculate_shear"
    /\ ret' = calculate_shear(calculate_section_properties(args.section), args.section,
                              Concrete(args.fck), ArgPrestress(args), Losses,
                              args.demand, get_section_height(args.section))
    /\ pc' = "done"
    /\ UNCHANGED <<fn, args, db, host>>

CallDeflection ==
    /\ pc = "ready" /\ fn = "calculate_deflection"
    /\ ret' = calculate_deflection(calculate_section_properties(args.section),
                                   Concrete(args.fck), ArgPrestress(args), Losses,
                                   args.span, args.demand, args.eccentricity)
    /\ pc' = "done"
    /\ UNCHANGED <<fn, args, db, host>>

CallCrackWidth ==
    /\ pc = "ready" /\ fn = "calculate_crack_width"
    /\ ret' = calculate_crack_width(calculate_section_properties(args.section),
                                    Concrete(args.fck), ArgPrestress(args), Losses,
                                    args.demand, args.eccentricity,
                                    get_section_height(args.section),
                                    args.exposure_class)
    /\ pc' = "done"
    /\ UNCHANGED <<fn, args, db, host>>

NextVerify == CallFlexure \/ CallShear \/ CallDeflection \/ CallCrackWidth

SpecVerify == InitVerify /\ [][NextVerify]_vars

VerifierReturned == pc = "done" /\ fn \in Verifiers /\ ~Failed(ret)

IsPass(status) == status \in {"PASS", "PASS - Uncracked"}

\* C2, as claimed: the status of a returned verdict is a pass exactly when the
\* utilization field of that record is <= 1.0, and "FAIL" exactly when it is
\* > 1.0
C2_StatusOfReturnedUtilization ==
    VerifierReturned =>
        /\ IsPass(ret.status) <=> QLe(ret.utilization, I(1))
        /\ ret.status = "FAIL" <=> QLt(I(1), ret.utilization)

\* C2, amended: the status is decided on the utilization before rounding and
\* the returned field is that utilization rounded to three decimals; a pass
\* has a returned utilization <= 1.0 and a returned utilization > 1.0 is a
\* "FAIL", but a "FAIL" can show a returned utilization of exactly 1.0
C2_StatusOfUtilization ==
    VerifierReturned =>
        /\ ret.status \in {"PASS", "PASS - Uncracked", "FAIL"}
        /\ IsPass(ret.status) <=> QLe(ret.ghost.utilization, I(1))
        /\ ret.utilization = Round(ret.ghost.utilization, 3)
        /\ IsPass(ret.status) => QLe(ret.utilization, I(1))
        /\ QLt(I(1), ret.utilization) => ret.status = "FAIL"

\* a verdict that fails although its returned utilization is 1.0
C2_Witness ==
    /\ VerifierReturned
    /\ ret.status = "FAIL"
    /\ ret.utilization = I(1)
    /\ QLt(I(1), ret.ghost.utilization)

\* C3: whenever the capacity of a verifier (M_Rd, V_Rd, the span / 250 limit,
\* wk_limit) is zero, the returned utilization is infinite and the status is
\* "FAIL"
C3_ZeroCapacityFails ==
    VerifierReturned /\ ret.ghost.capacity = I(0) =>
        IsInf(ret.utilization) /\ ret.status = "FAIL"

\* the decompression moment of the arguments of a crack width call
ArgDecompressionMoment ==
    DecompressionMoment(calculate_section_properties(args.section),
                        ArgPrestress(args), Losses, args.eccentricity)

\* C9: for every exposure class, a service moment of at most the decompression
\* moment makes calculate_crack_width return the uncracked verdict (wk,
\* utilization, sr_max and epsilon_sm_cm all 0) without computing the crack
\* spacing or the strain
C9_UncrackedBelowDecompression ==
    /\ pc = "done"
    /\ fn = "calculate_crack_width"
    /\ QLe(args.demand, ArgDecompressionMoment)
    => /\ ~Failed(ret)
       /\ ret.status = "PASS - Uncracked"
       /\ ret.wk = I(0)
       /\ ret.utilization = I(0)
       /\ ret.sr_max = I(0)
       /\ ret.epsilon_sm_cm = I(0)
       /\ ret.ghost.computed = {}

(***************************************************************************)
(* calculate_prestress_losses on its own                                   *)
(***************************************************************************)
\* jacking stresses in MPa: 8 % of 1000.1 is 80.008, which is no multiple of 0.01
JackingStresses == {I(1000), Dec(10001, -1)}

\* spans in m, 0 included
LossSpans == {I(10 * m) : m \in 0..MaxSpan}

LossArgs ==
    [prestress_type : {"pretensioned", "post_tensioned"},
     profile_type : {"straight", "parabolic"},
     num_strands : 0..MaxStrands,
     jacking_stress : JackingStresses,
     relaxation_class : {1, 2},
     fpk : {I(2000), I(10000)},
     span : LossSpans,
     eccentricity : Eccentricities]

InitLosses ==
    /\ pc = "ready"
    /\ fn = "calculate_prestress_losses"
    /\ args \in LossArgs
    /\ ret = None
    /\ Offline

LossPrestress(a) ==
    [Prestress(a.prestress_type, a.jacking_stress,
               Tendon(a.profile_type, a.num_strands, a.eccentricity),
               a.relaxation_class)
     EXCEPT !.steel.fpk = a.fpk]

CallLosses ==
    /\ pc = "ready" /\ fn = "calculate_prestress_losses"
    /\ ret' = calculate_prestress_losses(
                  LossPrestress(args),
                  calculate_section_properties(Rect(120, 150)),
                  Concrete(40), args.span, args.eccentricity)
    /\ pc' = "done"
    /\ UNCHANGED <<fn, args, db, host>>

NextLosses == CallLosses

SpecLosses == InitLosses /\ [][NextLosses]_vars

LossesReturned == pc = "done" /\ fn = "calculate_prestress_losses" /\ ~Failed(ret)

\* 0.08 * jacking_stress of the call
RelaxationCap == QMul(Dec(8, -2), args.jacking_stress)

\* C10, as claimed: the relaxation field of every returned PrestressLosses is
\* <= 0.08 * jacking_stress, whatever the relaxation class and the stress ratio
C10_RelaxationFieldCapped ==
    LossesReturned => QLe(ret.relaxation, RelaxationCap)

\* C10, amended: the relaxation loss is capped at 0.08 * jacking_stress before
\* it is rounded; the returned field is the capped loss rounded to two
\* decimals, so it is <= 0.08 * jacking_stress rounded to two decimals
C10_RelaxationCappedBeforeRounding ==
    LossesReturned =>
        /\ QLe(ret.ghost.relaxation, RelaxationCap)
        /\ ret.relaxation = Round(ret.ghost.relaxation, 2)
        /\ QLe(ret.relaxation, Round(RelaxationCap, 2))

\* a returned relaxation field above 0.08 * jacking_stress: the cap applied,
\* the rounding went up
C10_Witness ==
    /\ LossesReturned
    /\ ret.ghost.relaxation = RelaxationCap
    /\ QLt(RelaxationCap, ret.relaxation)

\* C11, as claimed: over the fields of the returned record, total_immediate =
\* elastic_shortening + friction + anchorage_slip, total_time_dependent = creep
\* + shrinkage + relaxation, total = total_immediate + total_time_dependent and
\* loss_ratio = total / jacking_stress * 100
C11_TotalsOverFields ==
    LossesReturned =>
        /\ ret.total_immediate =
               QAdd(QAdd(ret.elastic_shortening, ret.friction), ret.anchorage_slip)
        /\ ret.total_time_dependent =
               QAdd(QAdd(ret.creep, ret.shrinkage), ret.relaxation)
        /\ ret.total = QAdd(ret.total_immediate, ret.total_time_dependent)
        /\ ret.loss_ratio = QMul(QDiv(ret.total, args.jacking_stress), I(100))

\* C11, amended: the four relations hold between the values before rounding;
\* each returned field is its value rounded on its own, to two decimals
\* (loss_ratio to one)
C11_TotalsBeforeRounding ==
    LossesReturned =>
        /\ ret.ghost.total_immediate =
               QAdd(QAdd(ret.ghost.elastic_shortening, ret.ghost.friction),
                    ret.ghost.anchorage_slip)
        /\ ret.ghost.total_time_dependent =
               QAdd(QAdd(ret.ghost.creep, ret.ghost.shrinkage), ret.ghost.relaxation)
        /\ ret.ghost.total =
               QAdd(ret.ghost.total_immediate, ret.ghost.total_time_dependent)
        /\ ret.ghost.loss_ratio =
               QMul(QDiv(ret.ghost.total, args.jacking_stress), I(100))
        /\ \A f \in {"elastic_shortening", "friction", "anchorage_slip", "creep",
                      "shrinkage", "relaxation", "total_immediate",
                      "total_time_dependent", "total"} :
               ret[f] = Round(ret.ghost[f], 2)
        /\ ret.loss_ratio = Round(ret.ghost.loss_ratio, 1)

\* a returned record whose rounded parts do not add up to its rounded total
C11_Witness ==
    /\ LossesReturned
    /\ ret.ghost.relaxation # I(0)
    /\ ret.total # QAdd(ret.total_immediate, ret.total_time_dependent)

(***************************************************************************)
(* perform_full_analysis                                                   *)
(***************************************************************************)
\* a section whose shape tag is none of the four
UnknownSection == [section_type |-> "l_beam"]

LoadCase(udl, point_loads) == [udl |-> udl, point_loads |-> point_loads]

PointLoad(magnitude, position) == [magnitude |-> magnitude, position |-> position]

\* no load case, a udl, a udl with a point load at 1 m
LoadCaseLists ==
    {<<>>, <<LoadCase(I(1), <<>>)>>,
     <<LoadCase(I(1), <<>>), LoadCase(I(0), <<PointLoad(I(1), I(1))>>)>>}

\* eccentricities of the tendon in mm, None when not supplied
TendonEccentricities == {None, I(0), I(20), I(25)}

AnalysisSections == {Rect(120, 150)}

\* the sections and the tendons vary under one loading, the loading under one
\* section and tendon
AnalysisArgs ==
    [span : {I(2)}, section : AnalysisSections \cup {UnknownSection},
     prestress_type : {"pretensioned"},
     profile_type : {"straight", "parabolic", "harped", "trapezoidal"},
     num_strands : 1..MaxStrands, eccentricity : TendonEccentricities,
     load_cases : {<<LoadCase(I(1), <<>>)>>}, include_self_weight : {TRUE}]
    \cup
    [span : Spans, section : {Rect(120, 150)},
     prestress_type : {"pretensioned", "post_tensioned"},
     profile_type : {"straight"},
     num_strands : {0, MaxStrands}, eccentricity : {I(20)},
     load_cases : LoadCaseLists, include_self_weight : BOOLEAN]

TypeOK ==
    /\ pc \in {"ready", "done"}
    /\ fn = "perform_full_analysis"
    /\ args \in AnalysisArgs

Init ==
    /\ pc = "ready"
    /\ fn = "perform_full_analysis"
    /\ args \in AnalysisArgs
    /\ ret = None
    /\ Offline

AnalysisPrestress(a) ==
    Prestress(a.prestress_type, I(1000),
              Tendon(a.profile_type, a.num_strands, a.eccentricity), 2)

CallAnalysis ==
    /\ pc = "ready" /\ fn = "perform_full_analysis"
    /\ ret' = perform_full_analysis(args.span, args.section, Concrete(40),
                                    AnalysisPrestress(args), args.load_cases,
                                    args.include_self_weight)
    /\ pc' = "done"
    /\ UNCHANGED <<fn, args, db, host>>

Next == CallAnalysis

Spec == Init /\ [][Next]_vars

AnalysisReturned == pc = "done" /\ fn = "perform_full_analysis" /\ ~Failed(ret)

AnalysisRaised == pc = "done" /\ fn = "perform_full_analysis" /\ Failed(ret)
SectionTypes == {"rectangular", "t_beam", "i_beam", "box_girder"}

TendonProfiles == {"straight", "parabolic", "multi_parabolic", "harped"}

\* the statuses of the four verdicts of a returned analysis
Verdicts ==
    {ret.flexure.status, ret.shear.status, ret.deflection.status,
     ret.crack_width.status}

\* C1: perform_full_analysis returns overall_status "PASS" exactly when each of
\* the four verdicts (flexure, shear, deflection, crack width) is "PASS" or the
\* uncracked pass, and "FAIL" in every other case; the four verdicts alone
\* decide it, whatever the cable_concordancy flag.
C1_OverallStatus ==
    AnalysisReturned =>
        /\ ret.overall_status \in {"PASS", "FAIL"}
        /\ ret.overall_status = "PASS" <=> Verdicts \subseteq {"PASS", "PASS - Uncracked"}

\* an analysis that passes overall on an uncracked crack-width verdict, with
\* the cable not concordant
C1_Witness ==
    /\ AnalysisReturned
    /\ ret.overall_status = "PASS"
    /\ ret.crack_width.status = "PASS - Uncracked"
    /\ ret.cable_concordancy = FALSE

\* C4: when the section's shape tag is none of the four, the analysis raises
\* the error of calculate_section_properties at its first step: no later stage
\* has run and nothing of a result is returned.
C4_UnknownSectionRaisesFirst ==
    (pc = "done" /\ args.section.section_type \notin SectionTypes) =>
        /\ calculate_section_properties(args.section) = [error |-> "ValueError"]
        /\ ret = [error |-> "ValueError", calls |-> <<"calculate_section_properties">>]

C4_Witness ==
    /\ AnalysisRaised
    /\ args.section = UnknownSection
    /\ ret.error = "ValueError"

\* C5: when the tendon profile discriminator is none of the four, the analysis
\* is rejected with an error and no result is returned.
C5_UnknownProfileRejected ==
    (pc = "done" /\ args.profile_type \notin TendonProfiles
                 /\ args.section.section_type \in SectionTypes) =>
        Failed(ret)

(***************************************************************************)
(* Several calls of perform_full_analysis in one process, one after the    *)
(* other or interleaved.  calculations.py keeps no module-level state and  *)
(* the function assigns to locals only, so the state of a session is the   *)
(* argument objects the callers hold (args), the position of each call     *)
(* (pc) and what each call returned (ret).                                 *)
(***************************************************************************)
MaxCalls == 2

AnalysisCalls == 1..MaxCalls

\* the argument objects of a call: a rectangular section with two strands on
\* a span of 0 or 2 m, or a section of unknown shape
SessionInputs ==
    {a \in AnalysisArgs :
        /\ a.prestress_type = "pretensioned" /\ a.include_self_weight
        /\ a.profile_type = "straight" /\ a.eccentricity = I(20)
        /\ a.load_cases = <<LoadCase(I(1), <<>>)>>
        /\ \/ a.section = UnknownSection
           \/ a.num_strands = 2 /\ a.span \in {I(0), I(2)}}

InitSession ==
    /\ fn = "session"
    /\ args \in [AnalysisCalls -> SessionInputs]
    /\ pc = [i \in AnalysisCalls |-> "ready"]
    /\ ret = [i \in AnalysisCalls |-> None]
    /\ Offline

\* call i is entered: its frame is private, nothing shared is written
EnterAnalysis(i) ==
    /\ pc[i] = "ready"
    /\ pc' = [pc EXCEPT ![i] = "running"]
    /\ UNCHANGED <<fn, args, ret, db, host>>

\* (the mutant appends the self weight to the caller's load_cases list in place)
ReturnAnalysis_inplace(i) ==
    /\ pc[i] = "running"
    /\ ret' = [ret EXCEPT ![i] =
                  perform_full_analysis(args[i].span, args[i].section, Concrete(40),
                                        AnalysisPrestress(args[i]), args[i].load_cases,
                                        args[i].include_self_weight)]
    /\ args' = [args EXCEPT ![i].load_cases = Append(@, LoadCase(Dec(45, -2), <<>>))]
    /\ pc' = [pc EXCEPT ![i] = "done"]
    /\ UNCHANGED <<fn, db, host>>

\* call i runs to its return (or to its exception) on the arguments it was given
ReturnAnalysis(i) ==
    /\ pc[i] = "running"
    /\ ret' = [ret EXCEPT ![i] =
                  perform_full_analysis(args[i].span, args[i].section, Concrete(40),
                                        AnalysisPrestress(args[i]), args[i].load_cases,
                                        args[i].include_self_weight)]
    /\ pc' = [pc EXCEPT ![i] = "done"]
    /\ UNCHANGED <<fn, args, db, host>>

NextSession ==
    \/ \E i \in AnalysisCalls : EnterAnalysis(i)
    \/ \E i \in AnalysisCalls : ReturnAnalysis(i)

SpecSession == InitSession /\ [][NextSession]_vars

MaxRectWidth == 5

MaxRectHeight == 8

RectArgs == [width : {100 * k : k \in 0..MaxRectWidth}, height : {100 * k : k \in 0..MaxRectHeight}]

InitSection ==
    /\ pc = "ready"
    /\ fn = "calculate_section_properties"
    /\ args \in RectArgs
    /\ ret = None
    /\ Offline

CallSectionProperties ==
    /\ pc = "ready" /\ fn = "calculate_section_properties"
    /\ ret' = calculate_section_properties(Rect(args.width, args.height))
    /\ pc' = "done"
    /\ UNCHANGED <<fn, args, db, host>>

NextSection == CallSectionProperties

SpecSection == InitSection /\ [][NextSection]_vars

SectionCalled == pc = "done" /\ fn = "calculate_section_properties"

\* the closed forms of a b x h rectangle, stated on the returned record r
RectangleFormulas(r, b, h) ==
    /\ r.area = I(b * h)
    /\ QMul(r.I, I(12)) = QMul(I(b * h), I(h * h))
    /\ r.y_top = Q(h, 2) /\ r.y_bot = Q(h, 2)
    /\ r.Z_top = QDiv(r.I, Q(h, 2)) /\ r.Z_bot = QDiv(r.I, Q(h, 2))
    /\ r.perimeter = I(2 * (b + h))

\* C13: for a rectangular section of width b and height h the returned
\* properties are area = b*h, I = b*h^3/12, y_top = y_bot = h/2,
\* Z_top = Z_bot = I/(h/2) and perimeter = 2*(b+h); for b = 400, h = 800 the
\* area is 320000, I is within 0.1% of 1.7067e10 and y_top = y_bot = 400.
\* A rectangle has a height: with h = 0 the division I/(h/2) raises
\* ZeroDivisionError and no record is returned.
C13_RectangularProperties ==
    SectionCalled =>
        /\ args.height # 0 =>
              /\ ret.error = "none"
              /\ RectangleFormulas(ret, args.width, args.height)
        /\ args.height = 0 => ret.error = "ZeroDivisionError"
        /\ (args.width = 400 /\ args.height = 800) =>
              /\ ret.area = I(320000)
              /\ QLe(QAbs(QSub(ret.I, Dec(17067, 6))), Dec(17067, 3))
              /\ ret.y_top = I(400) /\ ret.y_bot = I(400)

C13_Witness ==
    /\ SectionCalled /\ args.width = 400 /\ args.height = 800
    /\ ret.error = "none" /\ ret.area = I(320000) /\ ret.perimeter = I(2400)

\* ------------------------------------------------------------------------
\* calculate_moments_and_shear on lists of load cases
\* ------------------------------------------------------------------------

MaxLoadCases == 2

\* a span of 0, one shorter than the farthest load position, one longer
LoadSpans == {I(0), I(5), I(10)}

\* no load, a udl, one point load, a udl with two point loads at 2 m and 8 m,
\* two point loads at 5 m and 8 m
LoadCasePool ==
    {LoadCase(I(0), <<>>), LoadCase(I(3), <<>>),
     LoadCase(I(0), <<PointLoad(I(10), I(2))>>),
     LoadCase(I(3), <<PointLoad(I(10), I(2)), PointLoad(I(10), I(8))>>),
     LoadCase(I(0), <<PointLoad(I(4), I(5)), PointLoad(I(10), I(8))>>)}

LoadArgs ==
    [span : LoadSpans, self_weight_udl : {I(0), Dec(45, -2)},
     factor : {I(1), Dec(135, -2), Dec(15, -1)},
     load_cases : UNION {[1..n -> LoadCasePool] : n \in 0..MaxLoadCases}]

InitLoads ==
    /\ pc = "ready"
    /\ fn = "calculate_moments_and_shear"
    /\ args \in LoadArgs
    /\ ret = None
    /\ Offline

CallMomentsAndShear ==
    /\ pc = "ready" /\ fn = "calculate_moments_and_shear"
    /\ ret' = calculate_moments_and_shear(args.span, args.load_cases,
                                          args.self_weight_udl, args.factor)
    /\ pc' = "done"
    /\ UNCHANGED <<fn, args, db, host>>

NextLoads == CallMomentsAndShear

SpecLoads == InitLoads /\ [][NextLoads]_vars

LoadsCalled == pc = "done" /\ fn = "calculate_moments_and_shear"

\* every point load of every load case, in order
RECURSIVE AllPointLoads(_)
AllPointLoads(load_cases) ==
    IF load_cases = <<>> THEN <<>>
    ELSE Head(load_cases).point_loads \o AllPointLoads(Tail(load_cases))

\* sum of the load cases' udl
RECURSIVE SumUdl(_)
SumUdl(load_cases) ==
    IF load_cases = <<>> THEN I(0)
    ELSE QAdd(Head(load_cases).udl, SumUdl(Tail(load_cases)))

\* f * P * a * (L - a) / L of one point load
PointMoment(pl, L, f) ==
    QDiv(QMul(QMul(f, pl.magnitude), QMul(pl.position, QSub(L, pl.position))), L)

\* f * P * max(a, L - a) / L of one point load
PointShear(pl, L, f) ==
    QDiv(QMul(QMul(f, pl.magnitude), QMax(pl.position, QSub(L, pl.position))), L)

RECURSIVE SumPointMoments(_, _, _)
SumPointMoments(pls, L, f) ==
    IF pls = <<>> THEN I(0)
    ELSE QAdd(PointMoment(Head(pls), L, f), SumPointMoments(Tail(pls), L, f))

RECURSIVE SumPointShears(_, _, _)
SumPointShears(pls, L, f) ==
    IF pls = <<>> THEN I(0)
    ELSE QAdd(PointShear(Head(pls), L, f), SumPointShears(Tail(pls), L, f))

\* W = f * (w_sw + sum of the load cases' udl)
FactoredUdl == QMul(args.factor, QAdd(args.self_weight_udl, SumUdl(args.load_cases)))

\* C14: calculate_moments_and_shear returns M_max = W*L^2/8 + sum over all
\* point loads of f*P*a*(L-a)/L and V_max = W*L/2 + sum over all point loads
\* of f*P*max(a, L-a)/L with W = f*(w_sw + sum of udl), each point load's own
\* maximum added whatever the section it occurs at. The point load terms
\* divide by L: with L = 0 and a point load the call raises ZeroDivisionError.
C14_MomentAndShearClosedForm ==
    LoadsCalled =>
        IF args.span = I(0) /\ AllPointLoads(args.load_cases) # <<>>
        THEN ret.error = "ZeroDivisionError"
        ELSE /\ ret.error = "none"
             /\ ret.total_udl = FactoredUdl
             /\ ret.M_max = QAdd(QDiv(QMul(FactoredUdl, Sq(args.span)), I(8)),
                                 SumPointMoments(AllPointLoads(args.load_cases), args.span, args.factor))
             /\ ret.V_max = QAdd(QDiv(QMul(FactoredUdl, args.span), Two),
                                 SumPointShears(AllPointLoads(args.load_cases), args.span, args.factor))

\* two point loads of 10 kN at 2 m and 8 m of a 10 m span, factor 1: each
\* enters the shear with 10 * 8 / 10 = 8 and the moment with 10 * 2 * 8 / 10
\* = 16, although their maxima occur at opposite ends
C14_Witness ==
    /\ LoadsCalled /\ args.span = I(10) /\ args.factor = I(1)
    /\ args.self_weight_udl = I(0)
    /\ args.load_cases = <<LoadCase(I(3), <<PointLoad(I(10), I(2)), PointLoad(I(10), I(8))>>)>>
    /\ ret.error = "none"
    /\ ret.V_max = I(15 + 8 + 8)
    /\ ret.M_max = QAdd(Q(75, 2), I(32))

\* ------------------------------------------------------------------------
\* The demands perform_full_analysis hands to the verifiers (Spec)
\* ------------------------------------------------------------------------

\* the udl of the ultimate state as claimed: 1.35 * self weight + 1.5 * udl
ClaimedUlsUdl ==
    QAdd(QMul(Dec(135, -2), ret.ghost.self_weight_udl),
         QMul(Dec(15, -1), SumUdl(args.load_cases)))

\* C15: in perform_full_analysis the udl behind M_uls and V_uls is
\* 1.35 * self_weight + 1.5 * (sum of the load cases' udl), and each point
\* load enters with the factor 1.5.
C15_UltimateFactors ==
    AnalysisReturned =>
        /\ ret.ghost.uls.total_udl = ClaimedUlsUdl
        /\ ret.ghost.uls.M_max =
               QAdd(QDiv(QMul(ClaimedUlsUdl, Sq(args.span)), I(8)),
                    SumPointMoments(AllPointLoads(args.load_cases), args.span, Dec(15, -1)))
        /\ ret.ghost.uls.V_max =
               QAdd(QDiv(QMul(ClaimedUlsUdl, args.span), Two),
                    SumPointShears(AllPointLoads(args.load_cases), args.span, Dec(15, -1)))

\* C16: the eccentricity perform_full_analysis uses is the value supplied for
\* the active profile whenever one is supplied, a supplied 0 included; the
\* default 0.7 * y_bot is used only when the value is not supplied.
C16_SuppliedEccentricityUsed ==
    (AnalysisReturned /\ args.profile_type \in TendonProfiles) =>
        ret.ghost.eccentricity =
            IF args.eccentricity = None
            THEN QMul(ret.section_properties.y_bot, Dec(7, -1))
            ELSE args.eccentricity

\* area * density / 1e6 when the self weight is included, else 0
SelfWeightUdl ==
    IF args.include_self_weight
    THEN QDiv(QMul(ret.section_properties.area, Concrete(40).density), Dec(1, 6))
    ELSE I(0)

\* the moment of the self weight alone
TransferMoment == QDiv(QMul(SelfWeightUdl, Sq(args.span)), I(8))

\* the moment of the self weight and every load at factor 1.0
ServiceMoment ==
    QAdd(QDiv(QMul(QAdd(SelfWeightUdl, SumUdl(args.load_cases)), Sq(args.span)), I(8)),
         SumPointMoments(AllPointLoads(args.load_cases), args.span, I(1)))

\* the udl of the ultimate state: (self weight * 1.35 + udl) * 1.5
UltimateUdl ==
    QMul(Dec(15, -1), QAdd(QMul(SelfWeightUdl, Dec(135, -2)), SumUdl(args.load_cases)))

UltimateMoment ==
    QAdd(QDiv(QMul(UltimateUdl, Sq(args.span)), I(8)),
         SumPointMoments(AllPointLoads(args.load_cases), args.span, Dec(15, -1)))

UltimateShear ==
    QAdd(QDiv(QMul(UltimateUdl, args.span), Two),
         SumPointShears(AllPointLoads(args.load_cases), args.span, Dec(15, -1)))

\* C17: in the returned AnalysisResults flexure.M_Ed is the ultimate moment
\* and shear.V_Ed the ultimate shear (each reported to 2 decimals), the crack
\* width is the one of the service moment, and the Magnel diagram is the one
\* of the transfer moment (self weight only, whatever the load cases, 0 when
\* include_self_weight is false) and the service moment.
C17_DemandsOfTheChecks ==
    AnalysisReturned =>
        /\ ret.flexure.M_Ed = Round(UltimateMoment, 2)
        /\ ret.shear.V_Ed = Round(UltimateShear, 2)
        /\ ret.crack_width =
               calculate_crack_width(ret.section_properties, Concrete(40),
                                     AnalysisPrestress(args), ret.prestress_losses,
                                     ServiceMoment, ret.ghost.eccentricity,
                                     get_section_height(args.section), "XC1")
        /\ ret.magnel_diagram =
               calculate_magnel_diagram(ret.section_properties, Concrete(40),
                                        TransferMoment, ServiceMoment,
                                        ret.prestress_losses,
                                        get_section_height(args.section))
        /\ ret.ghost.transfer.M_max = TransferMoment
        /\ ~args.include_self_weight => ret.ghost.transfer.M_max = I(0)

\* a returned analysis without self weight under a udl and a point load: the
\* transfer moment is 0 and the ultimate moment exceeds the service moment
C17_Witness ==
    /\ AnalysisReturned /\ ~args.include_self_weight
    /\ Len(args.load_cases) = 2
    /\ ret.ghost.transfer.M_max = I(0)
    /\ QLt(I(0), ServiceMoment) /\ QLt(ServiceMoment, UltimateMoment)
    /\ ret.flexure.M_Ed = Round(UltimateMoment, 2)

\* the load cases with every point load taken away
WithoutPointLoads(load_cases) ==
    [i \in DOMAIN load_cases |-> [load_cases[i] EXCEPT !.point_loads = <<>>]]

\* some load case has a point load of non-zero magnitude inside the span
HasPointLoadInSpan ==
    \E i \in DOMAIN args.load_cases : \E j \in DOMAIN args.load_cases[i].point_loads :
        /\ args.load_cases[i].point_loads[j].magnitude # I(0)
        /\ QLt(I(0), args.load_cases[i].point_loads[j].position)
        /\ QLt(args.load_cases[i].point_loads[j].position, args.span)

\* the analysis of the same input without its point loads
AnalysisWithoutPointLoads ==
    perform_full_analysis(args.span, args.section, Concrete(40), AnalysisPrestress(args),
                          WithoutPointLoads(args.load_cases), args.include_self_weight)

\* C18: the deflection check is evaluated for the whole service demand, point
\* loads included: an input with a point load of non-zero magnitude inside the
\* span and the same input without it give different delta_immediate.
C18_PointLoadsDeflect ==
    (AnalysisReturned /\ HasPointLoadInSpan) =>
        ret.deflection.delta_immediate # AnalysisWithoutPointLoads.deflection.delta_immediate

(***************************************************************************)
(* The slab design API (backend/server.py).  db holds the two collections; *)
(* host is what the handlers draw from the machine, the wall clock         *)
(* (datetime.now) and the uuid generator.  Each client sends one request   *)
(* (args[i]); a handler is a coroutine, and one action is the code between *)
(* two awaits with the database operation it resumes from.  pc[i] is the   *)
(* position of request i with the locals that live across an await, and    *)
(* ret[i] is the response.                                                 *)
(***************************************************************************)
MaxRequests == 2

Clients == 1..MaxRequests

JWT_SECRET == "JWT_SECRET"

\* a bearer token as the server sees it: whether it parses as a JWT, the key
\* of its signature, whether its exp lies in the past, the user_id of its
\* payload (0: the payload has none)
Token(form, key, expired, user_id) == [form |-> form, key |-> key, expired |-> expired, user_id |-> user_id]

create_token(user_id, email) == Token("jwt", JWT_SECRET, FALSE, user_id)

\* jwt.decode with the signature left unverified
jwt_decode_unverified(token) ==
    IF token.form # "jwt" THEN [error |-> "InvalidTokenError", user_id |-> 0]
    ELSE IF token.expired THEN [error |-> "ExpiredSignatureError", user_id |-> 0]
    ELSE [error |-> "none", user_id |-> token.user_id]

\* jwt.decode(token, JWT_SECRET, algorithms=["HS256"]): the segments are
\* parsed, the signature is verified, then exp is validated
jwt_decode(token) ==
    IF token.form # "jwt" THEN [error |-> "InvalidTokenError", user_id |-> 0]
    ELSE IF token.key # JWT_SECRET THEN [error |-> "InvalidTokenError", user_id |-> 0]
    ELSE IF token.expired THEN [error |-> "ExpiredSignatureError", user_id |-> 0]
    ELSE [error |-> "none", user_id |-> token.user_id]

Unauthorized(detail) == [status |-> 401, detail |-> detail, user_id |-> 0]

UserOfPayload(payload, users) ==
    IF payload.error = "ExpiredSignatureError" THEN Unauthorized("Token expired")
    ELSE IF payload.error = "InvalidTokenError" THEN Unauthorized("Invalid token")
    ELSE IF payload.user_id = 0 THEN Unauthorized("Invalid token")
    ELSE IF ~\E u \in users : u.id = payload.user_id THEN Unauthorized("User not found")
    ELSE [status |-> 200, detail |-> "", user_id |-> payload.user_id]

get_current_user(token, users) == UserOfPayload(jwt_decode(token), users)

hash_password(password) == [bcrypt |-> password]

verify_password(password, hashed) == hashed = [bcrypt |-> password]

\* the fields of SlabInput the handlers and the outcome of the calculation
\* depend on; the other fields are those of a 5 m x 6 m panel
SlabInput(slab_type, slab_thickness) == [project_name |-> "Slab", slab_type |-> slab_type, slab_thickness |-> slab_thickness, cover |-> 25]

\* d = h - c - 8 (one-way, two-way), d = h - c - 10 (flat slab); the design
\* divides by d: the results, or the error raised
SlabDesign(input_data, calculation_type, d) ==
    IF d = 0 THEN [error |-> "ZeroDivisionError"]
    ELSE [error |-> "none",
          results |-> [calculation_type |-> calculation_type,
                       slab_thickness |-> input_data.slab_thickness,
                       effective_depth |-> d]]

calculate_one_way_slab(input_data) ==
    SlabDesign(input_data, "One-Way Slab Design to EC2", input_data.slab_thickness - input_data.cover - 8)

calculate_two_way_slab(input_data) ==
    SlabDesign(input_data, "Two-Way Slab Design to EC2", input_data.slab_thickness - input_data.cover - 8)

calculate_flat_slab(input_data) ==
    SlabDesign(input_data, "Flat Slab Design to EC2", input_data.slab_thickness - input_data.cover - 10)

\* an unknown slab type designed as a one-way slab
run_calculation_lenient(input_data) ==
    IF input_data.slab_type = "one_way" THEN calculate_one_way_slab(input_data)
    ELSE IF input_data.slab_type = "two_way" THEN calculate_two_way_slab(input_data)
    ELSE IF input_data.slab_type = "flat_slab" THEN calculate_flat_slab(input_data)
    ELSE calculate_one_way_slab(input_data)

run_calculation(input_data) ==
    IF input_data.slab_type = "one_way" THEN calculate_one_way_slab(input_data)
    ELSE IF input_data.slab_type = "two_way" THEN calculate_two_way_slab(input_data)
    ELSE IF input_data.slab_type = "flat_slab" THEN calculate_flat_slab(input_data)
    ELSE [error |-> "ValueError"]

UserDoc(id, email, password, created_at) == [id |-> id, email |-> email, password |-> hash_password(password), created_at |-> created_at]

ProjectDoc(id, user_id, input_data, results, created_at, updated_at) ==
    [id |-> id, user_id |-> user_id, project_name |-> input_data.project_name,
     slab_type |-> input_data.slab_type, input_data |-> input_data,
     results |-> results, created_at |-> created_at, updated_at |-> updated_at]

\* db.projects.find({"id": project_id, "user_id": user_id})
ProjectsOf_anyowner(projects, project_id, user_id) == {p \in projects : p.id = project_id}

ProjectsOf(projects, project_id, user_id) == {p \in projects : p.id = project_id /\ p.user_id = user_id}

\* .sort("updated_at", -1): the latest first
RECURSIVE SortedByUpdatedAt(_)
SortedByUpdatedAt(S) ==
    IF S = {} THEN <<>>
    ELSE LET latest == CHOOSE p \in S : \A q \in S : q.updated_at <= p.updated_at
         IN  <<latest>> \o SortedByUpdatedAt(S \ {latest})

\* .to_list(100)
ListLimit == 100

ToList(s) == IF Len(s) <= ListLimit THEN s ELSE SubSeq(s, 1, ListLimit)

Response(status, body) == [status |-> status, body |-> body]

NoBody == "none"

\* the position of a request and its locals
At(at, user_id, now) == [at |-> at, user_id |-> user_id, now |-> now]

Done == At("done", 0, 0)

Respond(i, status, body) ==
    /\ ret' = [ret EXCEPT ![i] = Response(status, body)]
    /\ pc' = [pc EXCEPT ![i] = Done]

Protected == {"get_me", "create_project", "get_projects", "get_project", "update_project", "delete_project", "download_pdf"}

\* Depends(get_current_user): the token is decoded and the user looked up
\* before the endpoint is entered
Authenticate(i) ==
    /\ pc[i].at = "get_current_user"
    /\ IF get_current_user(args[i].token, db.users).status = 401
       THEN Respond(i, 401, get_current_user(args[i].token, db.users).detail)
       ELSE /\ pc' = [pc EXCEPT ![i] = At(args[i].endpoint, get_current_user(args[i].token, db.users).user_id, 0)]
            /\ UNCHANGED ret
    /\ UNCHANGED <<fn, args, db, host>>

get_me(i) ==
    /\ pc[i].at = "get_me"
    /\ Respond(i, 200, [id |-> pc[i].user_id])
    /\ UNCHANGED <<fn, args, db, host>>

create_project(i) ==
    /\ pc[i].at = "create_project"
    /\ IF Failed(run_calculation(args[i].input_data))
       THEN /\ Respond(i, 400, "Calculation error")
            /\ UNCHANGED <<db, host>>
       ELSE /\ db' = [db EXCEPT !.projects = @ \cup
                        {ProjectDoc(host.uuid, pc[i].user_id, args[i].input_data,
                                    run_calculation(args[i].input_data).results,
                                    host.clock, host.clock)}]
            /\ host' = [clock |-> host.clock + 1, uuid |-> host.uuid + 1]
            /\ Respond(i, 200, ProjectDoc(host.uuid, pc[i].user_id, args[i].input_data,
                                          run_calculation(args[i].input_data).results,
                                          host.clock, host.clock))
    /\ UNCHANGED <<fn, args>>

get_projects(i) ==
    /\ pc[i].at = "get_projects"
    /\ Respond(i, 200, ToList(SortedByUpdatedAt({p \in db.projects : p.user_id = pc[i].user_id})))
    /\ UNCHANGED <<fn, args, db, host>>

get_project(i) ==
    /\ pc[i].at = "get_project"
    /\ IF ProjectsOf(db.projects, args[i].project_id, pc[i].user_id) = {}
       THEN Respond(i, 404, "Project not found")
       ELSE Respond(i, 200, CHOOSE p \in ProjectsOf(db.projects, args[i].project_id, pc[i].user_id) : TRUE)
    /\ UNCHANGED <<fn, args, db, host>>

\* find_one of the caller's project, then the calculation and the timestamp:
\* everything up to the await of update_one
update_project_find_one(i) ==
    /\ pc[i].at = "update_project"
    /\ IF ProjectsOf(db.projects, args[i].project_id, pc[i].user_id) = {}
       THEN Respond(i, 404, "Project not found") /\ UNCHANGED host
       ELSE IF Failed(run_calculation(args[i].input_data))
       THEN Respond(i, 400, "Calculation error") /\ UNCHANGED host
       ELSE /\ pc' = [pc EXCEPT ![i] = At("update_one", pc[i].user_id, host.clock)]
            /\ host' = [host EXCEPT !.clock = @ + 1]
            /\ UNCHANGED ret
    /\ UNCHANGED <<fn, args, db>>

\* update_one with an empty filter: every project is overwritten
update_project_update_one_all(i) ==
    /\ pc[i].at = "update_one"
    /\ db' = [db EXCEPT !.projects =
                 {[p EXCEPT !.project_name = args[i].input_data.project_name,
                            !.slab_type = args[i].input_data.slab_type,
                            !.input_data = args[i].input_data,
                            !.results = run_calculation(args[i].input_data).results,
                            !.updated_at = pc[i].now] : p \in @}]
    /\ pc' = [pc EXCEPT ![i].at = "find_updated"]
    /\ UNCHANGED <<fn, args, ret, host>>

\* update_one({"id": project_id}, {"$set": ...})
update_project_update_one(i) ==
    /\ pc[i].at = "update_one"
    /\ db' = [db EXCEPT !.projects =
                 {IF p.id = args[i].project_id
                  THEN [p EXCEPT !.project_name = args[i].input_data.project_name,
                                 !.slab_type = args[i].input_data.slab_type,
                                 !.input_data = args[i].input_data,
                                 !.results = run_calculation(args[i].input_data).results,
                                 !.updated_at = pc[i].now]
                  ELSE p : p \in @}]
    /\ pc' = [pc EXCEPT ![i].at = "find_updated"]
    /\ UNCHANGED <<fn, args, ret, host>>

\* find_one({"id": project_id}) and ProjectResponse(**updated); a project
\* deleted in between gives None, and ProjectResponse(**None) raises
update_project_return(i) ==
    /\ pc[i].at = "find_updated"
    /\ IF {p \in db.projects : p.id = args[i].project_id} = {}
       THEN Respond(i, 500, "Internal Server Error")
       ELSE Respond(i, 200, CHOOSE p \in db.projects : p.id = args[i].project_id)
    /\ UNCHANGED <<fn, args, db, host>>

delete_project(i) ==
    /\ pc[i].at = "delete_project"
    /\ IF ProjectsOf(db.projects, args[i].project_id, pc[i].user_id) = {}
       THEN Respond(i, 404, "Project not found") /\ UNCHANGED db
       ELSE /\ db' = [db EXCEPT !.projects = @ \ ProjectsOf(@, args[i].project_id, pc[i].user_id)]
            /\ Respond(i, 200, "Project deleted")
    /\ UNCHANGED <<fn, args, host>>

download_pdf(i) ==
    /\ pc[i].at = "download_pdf"
    /\ IF ProjectsOf(db.projects, args[i].project_id, pc[i].user_id) = {}
       THEN Respond(i, 404, "Project not found")
       ELSE Respond(i, 200, [report_of |-> CHOOSE p \in ProjectsOf(db.projects, args[i].project_id, pc[i].user_id) : TRUE])
    /\ UNCHANGED <<fn, args, db, host>>

\* find_one by email, then the uuid and the timestamp: everything up to the
\* await of insert_one
register_find_one(i) ==
    /\ pc[i].at = "register"
    /\ IF \E u \in db.users : u.email = args[i].email
       THEN Respond(i, 400, "Email already registered") /\ UNCHANGED host
       ELSE /\ pc' = [pc EXCEPT ![i] = At("insert_one", host.uuid, host.clock)]
            /\ host' = [clock |-> host.clock + 1, uuid |-> host.uuid + 1]
            /\ UNCHANGED ret
    /\ UNCHANGED <<fn, args, db>>

register_insert_one(i) ==
    /\ pc[i].at = "insert_one"
    /\ db' = [db EXCEPT !.users = @ \cup {UserDoc(pc[i].user_id, args[i].email, args[i].password, pc[i].now)}]
    /\ Respond(i, 200, [access_token |-> create_token(pc[i].user_id, args[i].email), id |-> pc[i].user_id])
    /\ UNCHANGED <<fn, args, host>>

login(i) ==
    /\ pc[i].at = "login"
    /\ IF \E u \in db.users : u.email = args[i].email /\ verify_password(args[i].password, u.password)
       THEN Respond(i, 200, [access_token |-> create_token((CHOOSE u \in db.users : u.email = args[i].email /\ verify_password(args[i].password, u.password)).id, args[i].email)])
       ELSE Respond(i, 401, "Invalid credentials")
    /\ UNCHANGED <<fn, args, db, host>>

\* ---- the requests

Request(endpoint, token, project_id, input_data, email, password) ==
    [endpoint |-> endpoint, token |-> token, project_id |-> project_id,
     input_data |-> input_data, email |-> email, password |-> password]

NoToken == Token("none", "none", FALSE, 0)

NoInput == SlabInput("none", 0)

\* tokens of the two registered users
ValidTokens == {create_token(1, "ann@example.com"), create_token(2, "bob@example.com")}

\* not a JWT, signed with another key, expired, without user_id, of a user
\* that does not exist
BadTokens ==
    {Token("garbage", "none", FALSE, 0), Token("jwt", "other", FALSE, 1),
     Token("jwt", JWT_SECRET, TRUE, 1), Token("jwt", JWT_SECRET, FALSE, 0),
     Token("jwt", JWT_SECRET, FALSE, 9)}

SlabTypes == {"one_way", "two_way", "flat_slab"}

\* the three slab types, a one-way slab of effective depth 0, an unknown type
SlabInputs ==
    {SlabInput(s, 200) : s \in SlabTypes} \cup {SlabInput("one_way", 33), SlabInput("invalid_type", 200)}

\* project 11 is stored; 100 is the id the first uuid of a run gives
ProjectIds == {11, 100}

ProtectedRequests ==
    {Request(e, t, 0, NoInput, "", "") : e \in {"get_me", "get_projects"}, t \in ValidTokens \cup BadTokens}
    \cup {Request(e, t, p, NoInput, "", "") : e \in {"get_project", "delete_project", "download_pdf"}, t \in ValidTokens \cup BadTokens, p \in ProjectIds}
    \cup {Request("create_project", t, 0, s, "", "") : t \in ValidTokens \cup BadTokens, s \in SlabInputs}
    \cup {Request("update_project", t, p, s, "", "") : t \in ValidTokens \cup BadTokens, p \in ProjectIds, s \in SlabInputs}

AuthRequests ==
    {Request("register", NoToken, 0, NoInput, e, "pw") : e \in {"ann@example.com", "cy@example.com"}}
    \cup {Request("login", NoToken, 0, NoInput, "ann@example.com", w) : w \in {"ann", "guess"}}
    \cup {Request("login", NoToken, 0, NoInput, "cy@example.com", "pw")}

\* what the other clients send meanwhile: a project is created, project 11
\* is updated or deleted by its owner, a user registers
ConcurrentRequests ==
    {Request("create_project", create_token(2, "bob@example.com"), 0, SlabInput("two_way", 200), "", ""),
     Request("update_project", create_token(1, "ann@example.com"), 11, SlabInput("flat_slab", 200), "", ""),
     Request("delete_project", create_token(1, "ann@example.com"), 11, NoInput, "", ""),
     Request("register", NoToken, 0, NoInput, "cy@example.com", "pw")}

\* two users are registered and the first has a project
InitServer ==
    /\ fn = "server"
    /\ \E r \in ProtectedRequests \cup AuthRequests : \E others \in [Clients \ {1} -> ConcurrentRequests] :
           args = [i \in Clients |-> IF i = 1 THEN r ELSE others[i]]
    /\ pc = [i \in Clients |-> At(IF args[i].endpoint \in Protected THEN "get_current_user" ELSE args[i].endpoint, 0, 0)]
    /\ ret = [i \in Clients |-> None]
    /\ db = [users |-> {UserDoc(1, "ann@example.com", "ann", 1), UserDoc(2, "bob@example.com", "bob", 1)},
             projects |-> {ProjectDoc(11, 1, SlabInput("one_way", 200), run_calculation(SlabInput("one_way", 200)).results, 1, 1)}]
    /\ host = [clock |-> 2, uuid |-> 100]

NextServer ==
    \/ \E i \in Clients : Authenticate(i)
    \/ \E i \in Clients : get_me(i)
    \/ \E i \in Clients : create_project(i)
    \/ \E i \in Clients : get_projects(i)
    \/ \E i \in Clients : get_project(i)
    \/ \E i \in Clients : update_project_find_one(i)
    \/ \E i \in Clients : update_project_update_one(i)
    \/ \E i \in Clients : update_project_return(i)
    \/ \E i \in Clients : delete_project(i)
    \/ \E i \in Clients : download_pdf(i)
    \/ \E i \in Clients : register_find_one(i)
    \/ \E i \in Clients : register_insert_one(i)
    \/ \E i \in Clients : login(i)

SpecServer == InitServer /\ [][NextServer]_vars

Handled(i) == pc[i].at = "done"

\* request i is the one that takes the step
StepOf(i) == pc'[i] # pc[i]

\* the token does not parse, is signed with another key, is expired, has no
\* user_id, or names a user that is not in the users collection
BadBearer(i) ==
    \/ args[i].token.form # "jwt" \/ args[i].token.key # JWT_SECRET
    \/ args[i].token.expired \/ args[i].token.user_id = 0
    \/ \A u \in db.users : u.id # args[i].token.user_id

InvalidSlab(i) ==
    /\ args[i].endpoint \in {"create_project", "update_project"}
    /\ args[i].input_data.slab_type \notin SlabTypes

\* C19, as claimed: create_project and update_project called with a slab_type
\* other than one_way, two_way, flat_slab answer HTTP 400 and leave the
\* projects collection unchanged
C19_InvalidSlabAnswers400 ==
    /\ [](\A i \in Clients : (InvalidSlab(i) /\ ~BadBearer(i) /\ Handled(i)) => ret[i].status = 400)
    /\ [][\A i \in Clients : (InvalidSlab(i) /\ StepOf(i)) => db'.projects = db.projects]_vars

\* C19, amended: such a call never changes the projects collection;
\* create_project answers 400, and update_project answers 400 when the project
\* is one of the caller's and 404 "Project not found" when it is not (the
\* lookup comes before the calculation); a call whose token is rejected is
\* answered 401 before the endpoint is entered
C19_InvalidSlabRejected ==
    /\ [](\A i \in Clients : (InvalidSlab(i) /\ Handled(i)) =>
             /\ ret[i].status \in {400, 401, 404}
             /\ ret[i].status = 401 <=> BadBearer(i)
             /\ (args[i].endpoint = "create_project" /\ ~BadBearer(i)) => ret[i].status = 400)
    /\ [][\A i \in Clients : (InvalidSlab(i) /\ StepOf(i)) =>
             /\ db'.projects = db.projects
             /\ pc[i].at = "update_project" =>
                   /\ Handled(i)'
                   /\ ret'[i].status = (IF ProjectsOf(db.projects, args[i].project_id, pc[i].user_id) = {} THEN 404 ELSE 400)]_vars

\* an update of the stored project 11 by its owner with an unknown slab type
\* is answered 400 and the project is as it was stored
C19_Witness ==
    \E i \in Clients :
        /\ Handled(i) /\ args[i].endpoint = "update_project" /\ args[i].project_id = 11
        /\ args[i].input_data.slab_type = "invalid_type" /\ args[i].token.user_id = 1
        /\ ~BadBearer(i) /\ ret[i].status = 400
        /\ ProjectDoc(11, 1, SlabInput("one_way", 200), run_calculation(SlabInput("one_way", 200)).results, 1, 1) \in db.projects

\* C20: every request to a protected endpoint whose bearer token is
\* malformed, wrongly signed, expired, without user_id or of a user that does
\* not exist is answered 401, and it leaves the users and the projects
\* collection unchanged (the endpoint is never entered)
C20_BadTokenUnauthorized ==
    /\ [](\A i \in Clients : (args[i].endpoint \in Protected /\ BadBearer(i) /\ Handled(i)) => ret[i].status = 401)
    /\ [][\A i \in Clients : (args[i].endpoint \in Protected /\ BadBearer(i) /\ StepOf(i)) =>
             /\ db' = db
             /\ Handled(i)' /\ ret'[i].status = 401]_vars

\* a delete of the stored project 11 with an expired token of its owner is
\* answered 401 and the project is still stored
C20_Witness ==
    \E i \in Clients :
        /\ Handled(i) /\ args[i].endpoint = "delete_project" /\ args[i].project_id = 11
        /\ args[i].token = Token("jwt", JWT_SECRET, TRUE, 1)
        /\ ret[i].status = 401 /\ ret[i].body = "Token expired"
        /\ \E p \in db.projects : p.id = 11

\* the project with the fields an update of request i sets
Updated(p, i) ==
    [id |-> p.id, user_id |-> p.user_id, created_at |-> p.created_at,
     project_name |-> args[i].input_data.project_name,
     slab_type |-> args[i].input_data.slab_type,
     input_data |-> args[i].input_data,
     results |-> run_calculation(args[i].input_data).results,
     updated_at |-> pc[i].now]

\* request i answers 200 to an update_project in this step
UpdateSucceeds(i) ==
    /\ StepOf(i) /\ pc[i].at = "find_updated" /\ ret'[i].status = 200

\* C21, as claimed: after a successful update_project the stored project has
\* the submitted input_data, its results, project_name and slab_type and a new
\* updated_at, its id, user_id and created_at and every other project are
\* unchanged, and the response returns that stored project
C21_UpdateStoresSubmitted ==
    /\ [][\A i \in Clients : (StepOf(i) /\ pc[i].at = "update_one") =>
             db'.projects = {IF p.id = args[i].project_id THEN Updated(p, i) ELSE p : p \in db.projects}]_vars
    /\ [][\A i \in Clients : UpdateSucceeds(i) =>
             /\ ret'[i].body \in db.projects
             /\ ret'[i].body.id = args[i].project_id
             /\ ret'[i].body.input_data = args[i].input_data
             /\ ret'[i].body.results = run_calculation(args[i].input_data).results
             /\ ret'[i].body.updated_at = pc[i].now]_vars

\* C21, amended: the write of a successful update_project stores the submitted
\* input_data, its results, project_name and slab_type and the time the
\* request read, keeps id, user_id and created_at and every other project;
\* the response returns the project as it is stored when it is read back,
\* which is the submitted update unless another request has written the
\* project between the write and the read
C21_UpdateStoresAndReturnsStored ==
    /\ [][\A i \in Clients : (StepOf(i) /\ pc[i].at = "update_one") =>
             /\ db'.projects = {IF p.id = args[i].project_id THEN Updated(p, i) ELSE p : p \in db.projects}
             /\ pc[i].now >= 2
             /\ db'.users = db.users]_vars
    /\ [][\A i \in Clients : UpdateSucceeds(i) =>
             /\ ret'[i].body \in db.projects
             /\ ret'[i].body.id = args[i].project_id
             /\ db' = db]_vars
    /\ [][\A i \in Clients : \A j \in Clients :
             (StepOf(i) /\ pc[i].at = "update_one" /\ pc[j].at = "find_updated"
              /\ args[j].project_id = args[i].project_id /\ args[j].input_data # args[i].input_data) =>
                 \A p \in db'.projects : p.id = args[j].project_id => p.input_data # args[j].input_data]_vars

\* the owner's update of project 11 to a two-way slab is answered with the
\* stored project, next to a project another user has created
C21_Witness ==
    \E i \in Clients :
        /\ Handled(i) /\ args[i].endpoint = "update_project" /\ ret[i].status = 200
        /\ args[i].input_data = SlabInput("two_way", 200)
        /\ ret[i].body \in db.projects
        /\ ret[i].body.id = 11 /\ ret[i].body.user_id = 1 /\ ret[i].body.created_at = 1
        /\ ret[i].body.input_data = args[i].input_data
        /\ ret[i].body.results = run_calculation(args[i].input_data).results
        /\ ret[i].body.updated_at > 1
        /\ \E q \in db.projects : q.id = 100 /\ q.user_id = 2 /\ q.input_data = SlabInput("two_way", 200)

(***************************************************************************)
(* calculate_concrete_properties.  x ** 0.3 and math.log are taken from    *)
(* tables over the strengths used here (fck 30, 40 and 60), to 4 decimals. *)
(***************************************************************************)
\* (fcm / 10) ** 0.3
Pow03(x) ==
    IF x = Dec(38, -1) THEN Dec(14926, -4)
    ELSE IF x = Dec(48, -1) THEN Dec(16009, -4)
    ELSE IF x = Dec(68, -1) THEN Dec(17773, -4)
    ELSE RAISED

\* math.log(1 + fcm / 10)
Log(x) == IF x = Dec(78, -1) THEN Dec(20541, -4) ELSE RAISED

ConcreteRecord(fck, fcm, fctm, Ecm) ==
    [fck |-> fck, fck_cube |-> QDiv(fck, Dec(8, -1)), fcm |-> fcm, fctm |-> fctm,
     fctk_005 |-> QMul(Dec(7, -1), fctm), fctk_095 |-> QMul(Dec(13, -1), fctm),
     Ecm |-> Ecm]

\* fctm = 0.30 * fck ** (2/3) up to fck 50, 2.12 * log(1 + fcm / 10) above;
\* Ecm = 22 * (fcm / 10) ** 0.3 with fcm = fck + 8
calculate_concrete_properties(fck) ==
    ConcreteRecord(fck, QAdd(fck, I(8)),
                   IF QLe(fck, I(50)) THEN QMul(Dec(30, -2), Cbrt(Sq(fck)))
                   ELSE QMul(Dec(212, -2), Log(QAdd(I(1), QDiv(QAdd(fck, I(8)), I(10))))),
                   Sig(QMul(I(22), Pow03(QDiv(QAdd(fck, I(8)), I(10))))))

\* the concrete record with fctm and Ecm as derived from its fck
WithDerivedProperties(concrete) ==
    [concrete EXCEPT !.fctm = calculate_concrete_properties(concrete.fck).fctm,
                     !.Ecm = calculate_concrete_properties(concrete.fck).Ecm]

\* C22: within perform_full_analysis the fctm and Ecm consumed by the stages
\* are those calculate_concrete_properties gives for the supplied fck, so the
\* result depends on the concrete record only through fck, density, creep
\* coefficient and shrinkage strain: the losses of the analysis of a record
\* are the losses computed with the derived fctm and Ecm.
C22_DerivedConcreteUsed ==
    AnalysisReturned =>
        ret.prestress_losses =
            calculate_prestress_losses(AnalysisPrestress(args), ret.section_properties,
                                       WithDerivedProperties(Concrete(40)), args.span,
                                       ret.ghost.eccentricity)

\* ------------------------------------------------------------------------
\* The prestressing method in calculate_prestress_losses (SpecLosses)
\* ------------------------------------------------------------------------

\* friction and wobble coefficients other than those of the call
OtherCoefficients == {<<I(0), I(0)>>, <<Dec(5, -1), Dec(1, -1)>>}

\* the call with the friction and wobble coefficients c
LossesWithCoefficients(c) ==
    calculate_prestress_losses(
        [LossPrestress(args) EXCEPT !.friction_coefficient = c[1], !.wobble_coefficient = c[2]],
        calculate_section_properties(Rect(120, 150)), Concrete(40), args.span,
        args.eccentricity)

\* the call with the pretensioned configuration, all else equal
PretensionedTwin ==
    calculate_prestress_losses(
        [LossPrestress(args) EXCEPT !.prestress_type = "pretensioned"],
        calculate_section_properties(Rect(120, 150)), Concrete(40), args.span,
        args.eccentricity)

\* C23: for a pretensioned configuration friction = 0 and anchorage_slip = 0
\* for every tendon profile and every friction and wobble coefficient, so
\* total_immediate = elastic_shortening; and the unrounded elastic shortening
\* of the post-tensioned configuration is exactly half that of the
\* pretensioned one on otherwise identical inputs.
C23_MethodGatesLosses ==
    LossesReturned =>
        /\ args.prestress_type = "pretensioned" =>
              /\ ret.friction = I(0) /\ ret.anchorage_slip = I(0)
              /\ ret.ghost.friction = I(0) /\ ret.ghost.anchorage_slip = I(0)
              /\ ret.ghost.total_immediate = ret.ghost.elastic_shortening
              /\ ret.total_immediate = ret.elastic_shortening
              /\ \A c \in OtherCoefficients : LossesWithCoefficients(c) = ret
        /\ args.prestress_type = "post_tensioned" =>
              /\ ~Failed(PretensionedTwin)
              /\ QMul(Two, ret.ghost.elastic_shortening) = PretensionedTwin.ghost.elastic_shortening

\* a pretensioned parabolic tendon with a non-zero elastic shortening and no
\* friction or slip
C23_Witness ==
    /\ LossesReturned /\ args.prestress_type = "pretensioned"
    /\ args.profile_type = "parabolic" /\ args.span = I(10)
    /\ QLt(I(0), ret.elastic_shortening)
    /\ ret.friction = I(0) /\ ret.anchorage_slip = I(0)
    /\ ret.total_immediate = ret.elastic_shortening

\* a post-tensioned tendon whose elastic shortening is half the pretensioned one
C23_WitnessHalf ==
    /\ LossesReturned /\ args.prestress_type = "post_tensioned"
    /\ QLt(I(0), ret.ghost.elastic_shortening)
    /\ QLt(I(0), ret.friction) /\ QLt(I(0), ret.anchorage_slip)

\* ------------------------------------------------------------------------
\* The strut-crushing ceiling in calculate_shear (SpecVerify)
\* ------------------------------------------------------------------------

ShearReturned == VerifierReturned /\ fn = "calculate_shear"

\* C24: the resistance against which the demand is compared never exceeds
\* V_Rd_max, whether or not shear reinforcement is required; a shear status
\* of "PASS" therefore implies V_Ed <= V_Rd_max.
C24_ShearBelowStrutCeiling ==
    ShearReturned =>
        /\ QLe(Round(ret.ghost.capacity, 2), ret.V_Rd_max)
        /\ ret.status = "PASS" => QLe(ret.V_Ed, ret.V_Rd_max)

\* ------------------------------------------------------------------------
\* check_cable_concordancy against the limits of the Magnel diagram
\* (SpecConcordancy)
\* ------------------------------------------------------------------------

\* eccentricities in mm, positive below the centroid; None is a value left out
ConcordancyEccentricities == {None, I(-50), I(-20), I(0), I(20), I(50)}

ConcordancyArgs ==
    [section : VerifierSections,
     profile_type : {"straight", "parabolic", "multi_parabolic", "harped"},
     e_main : ConcordancyEccentricities, e_other : ConcordancyEccentricities]

\* TendonGeometry with e_main as eccentricity, e_mid or e_drape and e_other as
\* e_end or e_support
ConcordancyTendon(a) ==
    [profile_type |-> a.profile_type, num_strands |-> 1,
     eccentricity |-> IF a.profile_type = "straight" THEN a.e_main ELSE None,
     e_end |-> IF a.profile_type \in {"parabolic", "multi_parabolic"} THEN a.e_other ELSE None,
     e_mid |-> IF a.profile_type \in {"parabolic", "multi_parabolic"} THEN a.e_main ELSE None,
     e_support |-> IF a.profile_type = "harped" THEN a.e_other ELSE None,
     e_drape |-> IF a.profile_type = "harped" THEN a.e_main ELSE None]

InitConcordancy ==
    /\ pc = "ready"
    /\ fn = "check_cable_concordancy"
    /\ args \in ConcordancyArgs
    /\ ret = None
    /\ Offline

CallConcordancy ==
    /\ pc = "ready" /\ fn = "check_cable_concordancy"
    /\ ret' = [error |-> "none",
               value |-> check_cable_concordancy(ConcordancyTendon(args),
                             calculate_section_properties(args.section),
                             get_section_height(args.section))]
    /\ pc' = "done"
    /\ UNCHANGED <<fn, args, db, host>>

NextConcordancy == CallConcordancy

SpecConcordancy == InitConcordancy /\ [][NextConcordancy]_vars

ConcordancyReturned == pc = "done" /\ fn = "check_cable_concordancy"

\* the eccentricities relevant to the active profile, a value left out read as 0
RelevantEccentricities(a) ==
    IF a.profile_type = "straight" THEN {OrElse(a.e_main, I(0))}
    ELSE {OrElse(a.e_main, I(0)), OrElse(a.e_other, I(0))}

\* strictly between min_eccentricity = -(y_top - 50) and max_eccentricity =
\* y_bot - 50 of the Magnel diagram
InsideMagnelLimits(e, section_props) ==
    /\ QLt(QNeg(QSub(section_props.y_top, I(cover))), e)
    /\ QLt(e, QSub(section_props.y_bot, I(cover)))

\* C25: check_cable_concordancy returns true exactly when every eccentricity
\* relevant to the active tendon profile lies strictly between -(y_top - 50)
\* and y_bot - 50, for every section shape including ones with y_top
\* different from y_bot.
C25_ConcordantIffInsideLimits ==
    ConcordancyReturned =>
        (ret.value <=>
            \A e \in RelevantEccentricities(args) :
                InsideMagnelLimits(e, calculate_section_properties(args.section)))

\* ------------------------------------------------------------------------
\* The fiber stresses reported by the flexure check (Spec)
\* ------------------------------------------------------------------------

\* the fiber stress under the prestress left after the loss and the moment M,
\* rounded as reported; sign 1 is the top fiber, -1 the bottom fiber
ReportedStress(loss, M, Z, sign) ==
    Round(FiberStress(TendonForce(AnalysisPrestress(args), loss), M,
                      ret.section_properties.area, Z, ret.ghost.eccentricity, sign), 2)

\* C26: flexure.sigma_top_service and flexure.sigma_bot_service are the
\* elastic fiber stresses under the effective prestress and the service
\* moment (self weight plus load cases at factor 1.0), and sigma_top_transfer
\* and sigma_bot_transfer those under the prestress after immediate losses
\* and the transfer moment; none of the four influences flexure.status.
C26_ReportedFiberStresses ==
    AnalysisReturned =>
        /\ ret.flexure.sigma_top_service =
               ReportedStress(ret.prestress_losses.total, ServiceMoment,
                              ret.section_properties.Z_top, I(1))
        /\ ret.flexure.sigma_bot_service =
               ReportedStress(ret.prestress_losses.total, ServiceMoment,
                              ret.section_properties.Z_bot, I(-1))
        /\ ret.flexure.sigma_top_transfer =
               ReportedStress(ret.prestress_losses.total_immediate, TransferMoment,
                              ret.section_properties.Z_top, I(1))
        /\ ret.flexure.sigma_bot_transfer =
               ReportedStress(ret.prestress_losses.total_immediate, TransferMoment,
                              ret.section_properties.Z_bot, I(-1))
        /\ ret.flexure.status = StatusOf(ret.flexure.ghost.utilization)

\* the transfer stresses and the status alone, which the code computes as
\* described
C26_TransferStressesAndStatus ==
    AnalysisReturned =>
        /\ ret.flexure.sigma_top_transfer =
               ReportedStress(ret.prestress_losses.total_immediate, TransferMoment,
                              ret.section_properties.Z_top, I(1))
        /\ ret.flexure.sigma_bot_transfer =
               ReportedStress(ret.prestress_losses.total_immediate, TransferMoment,
                              ret.section_properties.Z_bot, I(-1))
        /\ ret.flexure.status = StatusOf(ret.flexure.ghost.utilization)

\* the service stresses as the code computes them: under the ultimate moment
C26_ServiceStressesUnderUltimateMoment ==
    AnalysisReturned =>
        /\ ret.flexure.sigma_top_service =
               ReportedStress(ret.prestress_losses.total, UltimateMoment,
                              ret.section_properties.Z_top, I(1))
        /\ ret.flexure.sigma_bot_service =
               ReportedStress(ret.prestress_losses.total, UltimateMoment,
                              ret.section_properties.Z_bot, I(-1))

\* ------------------------------------------------------------------------
\* Superposition in calculate_moments_and_shear (SpecLoads)
\* ------------------------------------------------------------------------

ScaleFactors == {I(0), Dec(5, -1), Two}

Reverse(s) == [i \in 1..Len(s) |-> s[Len(s) + 1 - i]]

\* the load cases with the point loads of every load case in reverse order
WithReversedPointLoads(load_cases) ==
    [i \in DOMAIN load_cases |->
        [load_cases[i] EXCEPT !.point_loads = Reverse(load_cases[i].point_loads)]]

\* every reordering of at most two load cases of at most two point loads each
Reorderings(load_cases) ==
    {Reverse(load_cases), WithReversedPointLoads(load_cases),
     Reverse(WithReversedPointLoads(load_cases))}

\* k times a result, and the sum of two results, entry by entry
ScaledEffects(k, r) ==
    [error |-> "none", M_max |-> QMul(k, r.M_max), V_max |-> QMul(k, r.V_max),
     M_udl |-> QMul(k, r.M_udl), total_udl |-> QMul(k, r.total_udl)]

SumOfEffects(r, s) ==
    [error |-> "none", M_max |-> QAdd(r.M_max, s.M_max), V_max |-> QAdd(r.V_max, s.V_max),
     M_udl |-> QAdd(r.M_udl, s.M_udl), total_udl |-> QAdd(r.total_udl, s.total_udl)]

\* the two parts of the call's load cases split after the first i of them
FirstPart(i) ==
    calculate_moments_and_shear(args.span, SubSeq(args.load_cases, 1, i),
                                args.self_weight_udl, args.factor)

SecondPart(i) ==
    calculate_moments_and_shear(args.span,
                                SubSeq(args.load_cases, i + 1, Len(args.load_cases)),
                                I(0), args.factor)

MomentLoad(magnitude, position) == [magnitude |-> magnitude, position |-> position]

\* LoadCase of models.py with all its fields
LoadCaseModel(name, udl, point_loads, moments, is_permanent, load_factor_uls, load_factor_sls) ==
    [name |-> name, udl |-> udl, point_loads |-> point_loads, moments |-> moments,
     is_permanent |-> is_permanent, load_factor_uls |-> load_factor_uls,
     load_factor_sls |-> load_factor_sls]

\* a udl of 1 kN/m with or without a point load at 1 m; every other field at
\* its default and at another value
LoadCaseModels ==
    {LoadCaseModel(name, I(1), pls, ms, perm, uls, sls) :
        name \in {"Load Case 1", "Wind"},
        pls \in {<<>>, <<PointLoad(I(1), I(1))>>},
        ms \in {<<>>, <<MomentLoad(I(5), I(1))>>},
        perm \in BOOLEAN,
        uls \in {Dec(15, -1), Dec(135, -2)},
        sls \in {I(1), Dec(5, -1)}}

LoadCaseFunctions == {"calculate_moments_and_shear", "perform_full_analysis"}

LoadCaseArgs(f) ==
    [load_cases : {<<lc>> : lc \in LoadCaseModels},
     factor : IF f = "calculate_moments_and_shear" THEN {I(1), Dec(15, -1)} ELSE {I(1)}]

InitLoadCases ==
    /\ pc = "ready"
    /\ fn \in LoadCaseFunctions
    /\ args \in LoadCaseArgs(fn)
    /\ ret = None
    /\ Offline

\* the demand of the load cases on a span of 2 m with a self weight of 0.45
DemandOf(load_cases, factor) ==
    calculate_moments_and_shear(I(2), load_cases, Dec(45, -2), factor)

\* the analysis of the load cases on a pretensioned rectangular beam
AnalysisOf(load_cases) ==
    perform_full_analysis(I(2), Rect(120, 150), Concrete(40),
                          Prestress("pretensioned", I(1000), Tendon("straight", 1, I(20)), 2),
                          load_cases, TRUE)

CallDemand ==
    /\ pc = "ready" /\ fn = "calculate_moments_and_shear"
    /\ ret' = DemandOf(args.load_cases, args.factor)
    /\ pc' = "done"
    /\ UNCHANGED <<fn, args, db, host>>

CallAnalysisOfLoadCases ==
    /\ pc = "ready" /\ fn = "perform_full_analysis"
    /\ ret' = AnalysisOf(args.load_cases)
    /\ pc' = "done"
    /\ UNCHANGED <<fn, args, db, host>>

NextLoadCases == CallDemand \/ CallAnalysisOfLoadCases

SpecLoadCases == InitLoadCases /\ [][NextLoadCases]_vars

LoadCasesCalled == pc = "done" /\ fn \in LoadCaseFunctions

\* the load cases with the same udl and point loads and every other field at
\* its default
WithDefaults(load_cases) ==
    [i \in DOMAIN load_cases |->
        LoadCaseModel("Load Case 1", load_cases[i].udl, load_cases[i].point_loads, <<>>,
                      FALSE, Dec(15, -1), I(1))]

\* C28: the demand of calculate_moments_and_shear and the whole result of
\* perform_full_analysis depend on a load case only through its udl and its
\* point loads: an input and the input with the same udl and point loads but
\* another name, is_permanent, load_factor_uls, load_factor_sls or list of
\* moments give identical results.
C28_OnlyUdlAndPointLoads ==
    LoadCasesCalled =>
        ret = IF fn = "calculate_moments_and_shear"
              THEN DemandOf(WithDefaults(args.load_cases), args.factor)
              ELSE AnalysisOf(WithDefaults(args.load_cases))

\* a returned analysis of a load case that differs from the default in every
\* field the demand does not read
C28_Witness ==
    /\ LoadCasesCalled /\ fn = "perform_full_analysis" /\ ~Failed(ret)
    /\ args.load_cases[1].name = "Wind" /\ args.load_cases[1].is_permanent
    /\ args.load_cases[1].load_factor_uls = Dec(135, -2)
    /\ args.load_cases[1].load_factor_sls = Dec(5, -1)
    /\ args.load_cases[1].moments # <<>> /\ args.load_cases[1].point_loads # <<>>
    /\ ret = AnalysisOf(WithDefaults(args.load_cases))
    /\ QLt(I(0), ret.flexure.M_Ed)

\* ------------------------------------------------------------------------
\* Isolation of the projects of different users (SpecServer)
\* ------------------------------------------------------------------------

\* request i has passed get_current_user and is inside its endpoint
InEndpoint(i) == args[i].endpoint \in Protected /\ pc[i].at \notin {"get_current_user", "done"}

\* the projects that are not the caller's
ProjectsOfOthers(projects, user_id) == {p \in projects : p.user_id # user_id}

\* request i is about to run an endpoint on a stored project of another user
OnForeignProject(i) ==
    /\ pc[i].at \in {"get_project", "update_project", "delete_project", "download_pdf"}
    /\ \E p \in db.projects : p.id = args[i].project_id /\ p.user_id # pc[i].user_id

\* C29: get_projects returns only projects whose user_id is the caller's, and
\* get_project, update_project, delete_project and download_pdf on a project
\* owned by another user answer 404 and leave that project unchanged and
\* present; no step of a request changes or removes a project of another user.
C29_ProjectIsolation ==
    /\ [][\A i \in Clients : (StepOf(i) /\ pc[i].at = "get_projects") =>
             /\ ret'[i].status = 200
             /\ \A k \in DOMAIN ret'[i].body :
                   ret'[i].body[k].user_id = pc[i].user_id /\ ret'[i].body[k] \in db.projects]_vars
    /\ [][\A i \in Clients : (StepOf(i) /\ OnForeignProject(i)) =>
             /\ Handled(i)' /\ ret'[i].status = 404
             /\ db' = db]_vars
    /\ [][\A i \in Clients : (StepOf(i) /\ InEndpoint(i)) =>
             ProjectsOfOthers(db'.projects, pc[i].user_id) = ProjectsOfOthers(db.projects, pc[i].user_id)]_vars

\* bob's delete of ann's project 11 is answered 404 and the project is still
\* stored as it was created
C29_Witness ==
    \E i \in Clients :
        /\ Handled(i) /\ args[i].endpoint = "delete_project" /\ args[i].project_id = 11
        /\ args[i].token = create_token(2, "bob@example.com")
        /\ ret[i].status = 404 /\ ret[i].body = "Project not found"
        /\ ProjectDoc(11, 1, SlabInput("one_way", 200), run_calculation(SlabInput("one_way", 200)).results, 1, 1) \in db.projects

\* ------------------------------------------------------------------------
\* Uniqueness of the email under interleaved register requests (SpecServer)
\* ------------------------------------------------------------------------

\* C30: after any interleaving of concurrent register requests, each
\* suspending between its lookup of the email and its insert, the users
\* collection holds at most one user per email, and every step of a register
\* call whose email is already stored answers 400 without inserting a user.
C30_EmailUniqueUnderInterleaving ==
    /\ [](\A u \in db.users : \A v \in db.users : u.email = v.email => u = v)
    /\ [][\A i \in Clients :
             (StepOf(i) /\ args[i].endpoint = "register"
              /\ \E u \in db.users : u.email = args[i].email) =>
                 /\ Handled(i)' /\ ret'[i].status = 400
                 /\ db'.users = db.users]_vars

====
